---- MODULE Spec2Model ----
(***************************************************************************)
(* A model of the concurrent primitives of libstdgo (package concurrent):  *)
(* AtomicCounter, AtomicReference and Scoreboard, with their condition     *)
(* waits (Await / AwaitCtx / Fill / Drain).                                *)
(*                                                                         *)
(* Goroutines are processes.  One action is one atomic step of a call: an  *)
(* instruction of sync/atomic, a channel operation, a mutex operation or a *)
(* critical section run under a held mutex.  The steps of one call are     *)
(* chained by the goroutine's program counter, so that every interleaving  *)
(* the Go scheduler can produce is a behaviour of the model.               *)
(***************************************************************************)
EXTENDS Integers, Sequences, FiniteSets, TLC

\* Largest value the model lets Add produce in the runs with waiters, where
\* values stay in 0..MaxVal, and largest magnitude it lets Add produce in
\* the runs of the mutators alone, where they stay in -MaxSum..MaxSum.
\* Add is not taken beyond these.
MaxVal == 1
MaxSum == 2

\* The goroutines: writers call the mutators, waiters call AwaitCtx / Await.
Writers == {"w1", "w2"}
Waiters == {"a1", "a2"}
Procs == Writers \cup Waiters

\* Arguments the callers pass to Set and CompareAndSwap, and initial values.
ArgVals == {0, 1}
\* Amounts the callers pass to Add (Inc is Add(1), Dec is Add(-1)).
Deltas == {1, -1}

\* Largest number of shards a scoreboard of the model is created with.
MaxShards == 2
\* The keys of the model, as the bytes of the strings "a" and "b".
Keys == {<<97>>, <<98>>}

\* The referents stored in a reference: nil and two other values.
Nil == "nil"
RefVals == {Nil, "x", "y"}

\* Intervals of a Deadline run from 0 to MaxInterval ticks, and the clock
\* from the tick the Deadline is created at up to MaxTime.
MaxInterval == 2
MaxTime == 6
Intervals == 0..MaxInterval
\* time.Unix(0, 0).
Epoch == 0
\* The clock when the run begins: the epoch lies further back than any interval.
StartTime == MaxInterval + 1
MaxArgs == 2
MaxCalls == 3
MaxChecks == 3
Durations == {1, 2}
DefaultConcurrency == 16
DefaultCounterCheckInterval == 10
DefaultReferenceCheckInterval == 10
DefaultScoreboardCheckInterval == 10

VARIABLES
    prim,      \* the primitive the goroutines of this run share
    cValue,    \* atomicCounter.value
    cNotify,   \* number of elements buffered in atomicCounter.notify (capacity 1)
    rValue,    \* atomicReference.value: the stored pointer{referent}
    rNotify,   \* number of elements buffered in atomicReference.notify (capacity 1)
    nShards,   \* len(scoreboard.shards)
    sLock,     \* each shard's lock: the goroutine holding it, or "free"
    sNotify,   \* number of elements buffered in each shard's notify (capacity 1)
    sCounters, \* each shard's counters map
    op,        \* the locals of each goroutine's scoreboard call in progress
    pc,        \* each goroutine's position
    cond,      \* each waiter's condition
    val,       \* each waiter's local variable `value` (`referent`)
    ret,       \* each waiter's returned value
    ticker,    \* each waiter's sleepTicker: "nil", "armed", "fired" (a tick is buffered), "stopped"
    ctxDone,   \* whether each waiter's context is done (cancelled or past its deadline)
    clock,     \* time.Now(), in ticks since the Unix epoch
    interval,  \* deadline.interval, in ticks
    obj,       \* the fields of a Fault, a check.Wait or a diags.Watch, when the run is about one
    hist       \* history of the mutator calls made so far (not program state)

\* Values a counter or a score takes in the model.
Range == IF hist.on THEN (0 - MaxSum)..MaxSum ELSE 0..MaxVal

vars == <<prim, cValue, cNotify, rValue, rNotify, nShards, sLock, sNotify, sCounters,
          op, pc, cond, val, ret, ticker, ctxDone, clock, interval, hist, obj>>

sbVars == <<nShards, sLock, sNotify, sCounters, op>>
sbVarsButOp == <<nShards, sLock, sNotify, sCounters>>

----------------------------------------------------------------------------
(* Conditions (I64Condition, RefCondition): predicates, kept as data.      *)

I64Equal(target) == [kind |-> "eq", target |-> target]
I64LessThan(target) == [kind |-> "lt", target |-> target]
I64LessThanOrEqual(target) == [kind |-> "le", target |-> target]
I64GreaterThan(target) == [kind |-> "gt", target |-> target]
\* A greater-than-or-equal that leaves the target itself out.
I64GreaterThanOrEqualStrict(target) == [kind |-> "gt", target |-> target]
I64GreaterThanOrEqual(target) == [kind |-> "ge", target |-> target]
I64Not(c) == [kind |-> "not", inner |-> c]

RefEqual(target) == [kind |-> "eq", target |-> target]
RefNil == [kind |-> "eq", target |-> Nil]
RefNot(c) == [kind |-> "not", inner |-> c]

RECURSIVE Holds(_, _)
Holds(c, value) ==
    CASE c.kind = "eq" -> value = c.target
      [] c.kind = "lt" -> value < c.target
      [] c.kind = "le" -> value <= c.target
      [] c.kind = "gt" -> value > c.target
      [] c.kind = "ge" -> value >= c.target
      [] c.kind = "not" -> ~Holds(c.inner, value)

\* Fill and Drain are Await with these conditions.
FillCond(atLeast) == I64GreaterThanOrEqual(atLeast)
DrainCond(atMost) == I64LessThanOrEqual(atMost)

\* The conditions the waiters of the model pass: to a counter or a
\* scoreboard key, and to a reference.
Conds == {DrainCond(0), FillCond(MaxVal)}
RefConds == {RefNil, RefEqual("x")}

----------------------------------------------------------------------------
(* sync/atomic on the counter's value, and the notification channel.       *)

\* A plausible slip: the amount is stored, not added.
AddInt64Stores(v, amount) == amount

AddInt64(v, amount) == v + amount

\* An int64 at its full width: two's complement in four 16-bit limbs, the
\* most significant first.
Limb == 65536
Int64(n) == IF n >= 0 THEN <<0, 0, 0, n>> ELSE <<Limb - 1, Limb - 1, Limb - 1, Limb + n>>
MaxInt64 == <<(Limb \div 2) - 1, Limb - 1, Limb - 1, Limb - 1>>
MinInt64 == <<Limb \div 2, 0, 0, 0>>
IsNegative(v) == v[1] >= Limb \div 2

\* The sum of two int64 as the machine forms it: limb by limb with the
\* carries, the carry out of the top limb lost.
WrappingSum(v, amount) ==
    LET s4 == v[4] + amount[4]
        s3 == v[3] + amount[3] + (s4 \div Limb)
        s2 == v[2] + amount[2] + (s3 \div Limb)
        s1 == v[1] + amount[1] + (s2 \div Limb)
    IN  <<s1 % Limb, s2 % Limb, s3 % Limb, s4 % Limb>>

\* An addition that stops at the ends of the range instead of wrapping.
AddInt64Saturating(v, amount) ==
    LET sum == WrappingSum(v, amount) IN
    IF IsNegative(v) = IsNegative(amount) /\ IsNegative(sum) # IsNegative(v)
    THEN (IF IsNegative(v) THEN MinInt64 ELSE MaxInt64)
    ELSE sum

\* atomic.AddInt64(&c.value, amount), and s.counters[key] + amount, at
\* full width.
AddInt64Wide(v, amount) == WrappingSum(v, amount)

\* Plausible slips: the comparison is left out; the swap is reported but
\* the replacement is not stored.
CompareAndSwapInt64Blind(v, expected, replacement) ==
    [swapped |-> TRUE, value |-> replacement]
CompareAndSwapInt64NoStore(v, expected, replacement) ==
    [swapped |-> v = expected, value |-> v]

CompareAndSwapInt64(v, expected, replacement) ==
    [swapped |-> v = expected,
     value |-> IF v = expected THEN replacement ELSE v]

\* A send that always takes the default branch.
TrySendDrops(n) == n

\* The same send on a channel made with capacity 2.
TrySendTwo(n) == IF n < 2 THEN n + 1 ELSE n

\* A non-blocking send on a channel of capacity 1 holding n elements:
\* select { case ch <- 0: default: }.
TrySend(n) == IF n = 0 THEN 1 ELSE n

\* The single-field carrier of a reference's value.
Pointer(referent) == [referent |-> referent]

----------------------------------------------------------------------------
(* History of the mutator calls of a run.  It is kept only in the runs     *)
(* that start with hist.on, and records what the claims about sums and     *)
(* about racing swaps speak of; no action's guard or effect reads it.      *)

\* The optional arguments of a variadic call: at most MaxArgs values of S.
ArgLists(S) == UNION {[1..n -> S] : n \in 0..MaxArgs}

\* fmt.Errorf("Expected at most %d argument(s), got %d", limit, length)
ExpectedAtMost(limit, length) ==
    [format |-> "Expected at most %d argument(s), got %d", args |-> <<limit, length>>]

\* An Optional that takes the argument at offset and ignores the surplus.
OptionalLenient(offset, limit, def, args) ==
    IF offset < Len(args) THEN [panic |-> FALSE, value |-> args[offset + 1]]
    ELSE [panic |-> FALSE, value |-> def]

\* arity.Optional: what the call returns, or the error it panics with.
Optional(offset, limit, def, args) ==
    IF limit < 1
    THEN [panic |-> TRUE,
          err |-> [format |-> "Limit must be greater than 0", args |-> <<>>]]
    ELSE IF offset < 0 \/ offset >= limit
    THEN [panic |-> TRUE,
          err |-> [format |-> "The limit-offset relationship must satisfy 0 <= offset < limit",
                   args |-> <<>>]]
    ELSE IF Len(args) > limit
    THEN [panic |-> TRUE, err |-> ExpectedAtMost(limit, Len(args))]
    ELSE IF offset < Len(args)
    THEN [panic |-> FALSE, value |-> args[offset + 1]]
    ELSE [panic |-> FALSE, value |-> def]

Sole(def, args) == Optional(0, 1, def, args)

\* ListifyOrPanic copies the slice it is given, element by element.
ListifyOrPanic(array) == [i \in 1..Len(array) |-> array[i]]
SoleUntyped(def, args) == Sole(def, ListifyOrPanic(args))

\* concurrent.optional: the check interval of an Await.
optional(def, args) == SoleUntyped(def, args)

NoCall == [name |-> "none"]
NoObject == [kind |-> "none"]
HistOff == [on |-> FALSE]
\* No history of the calls, but the scoreboard's readers and Clear are
\* followed: a View in progress keeps those of the contents the scoreboard
\* has had since it began that agree with what it has copied so far, a
\* Clear whether another call has written since it began.
HistBoard == [on |-> FALSE, follow |-> TRUE]
HistNew(initial) ==
    [on |-> TRUE,
     initial |-> initial, \* the value each cell (the counter, a key) started with
     onlyAdds |-> TRUE,   \* every mutator call so far was an Add
     sum |-> [cell \in DOMAIN initial |-> 0],
                          \* the sum of the amounts added to each cell (while onlyAdds)
     onlyCas |-> TRUE,    \* every mutator call so far was a CompareAndSwap
     casExpected |-> {},  \* the expected values those calls passed
     casSelf |-> FALSE,   \* one of them passed replacement = expected
     casWins |-> 0,       \* how many of them returned true (counted up to 2)
     last |-> NoCall]     \* the latest atomic step of a mutator, as it happened

HistOther(h, call) ==
    IF ~h.on THEN h
    ELSE [h EXCEPT !.onlyAdds = FALSE, !.sum = [cell \in DOMAIN @ |-> 0], !.onlyCas = FALSE,
                   !.casExpected = {}, !.casSelf = FALSE, !.casWins = 0,
                   !.last = call]

HistAdd(h, cell, amount, call) ==
    IF ~h.on THEN h
    ELSE IF h.onlyAdds
         THEN [h EXCEPT !.sum[cell] = @ + amount, !.onlyCas = FALSE, !.last = call]
         ELSE HistOther(h, call)

HistCas(h, call) ==
    IF ~h.on THEN h
    ELSE IF h.onlyCas
         THEN [h EXCEPT !.onlyAdds = FALSE,
                        !.casExpected = @ \cup {call.expected},
                        !.casSelf = @ \/ (call.replacement = call.expected),
                        !.casWins = IF call.ret /\ @ < 2 THEN @ + 1 ELSE @,
                        !.last = call]
         ELSE HistOther(h, call)

----------------------------------------------------------------------------
(* AtomicCounter: the mutators.                                            *)

\* Add (Inc, Dec), first step: atomic.AddInt64, whose result the call
\* returns; the deferred notifyUpdate follows.
CounterAdd(w, amount) ==
    /\ prim = "counter" /\ pc[w] = "idle"
    /\ AddInt64(cValue, amount) \in Range
    /\ cValue' = AddInt64(cValue, amount)
    /\ pc' = [pc EXCEPT ![w] = "notify"]
    /\ hist' = HistAdd(hist, "value", amount,
                       [name |-> "Add", amount |-> amount, before |-> cValue,
                        after |-> cValue', ret |-> cValue'])
    /\ UNCHANGED <<obj, clock, interval, sbVars, cNotify, prim, rValue, rNotify, cond, val, ret, ticker, ctxDone>>

\* An Add that returns the value it found, not the one it left.
CounterAddFetches(w, amount) ==
    /\ prim = "counter" /\ pc[w] = "idle"
    /\ hist.calls < MaxCalls
    /\ cValue' = AddInt64Wide(cValue, amount)
    /\ pc' = [pc EXCEPT ![w] = "notify"]
    /\ op' = [op EXCEPT ![w] = [name |-> "Add", amount |-> amount, ret |-> cValue]]
    /\ hist' = [hist EXCEPT !.calls = @ + 1]
    /\ UNCHANGED <<obj, clock, interval, sbVarsButOp, cNotify, prim, rValue, rNotify, cond, val, ret,
                   ticker, ctxDone>>

\* Add at full width; the call keeps the amount and the value it returns.
CounterAddWide(w, amount) ==
    LET updated == AddInt64Wide(cValue, amount) IN
    /\ prim = "counter" /\ pc[w] = "idle"
    /\ hist.calls < MaxCalls
    /\ cValue' = updated
    /\ pc' = [pc EXCEPT ![w] = "notify"]
    /\ op' = [op EXCEPT ![w] = [name |-> "Add", amount |-> amount, ret |-> updated]]
    /\ hist' = [hist EXCEPT !.calls = @ + 1]
    /\ UNCHANGED <<obj, clock, interval, sbVarsButOp, cNotify, prim, rValue, rNotify, cond, val, ret,
                   ticker, ctxDone>>

\* Set, first step: atomic.StoreInt64; the deferred notifyUpdate follows.
CounterSet(w, amount) ==
    /\ prim = "counter" /\ pc[w] = "idle"
    /\ cValue' = amount
    /\ pc' = [pc EXCEPT ![w] = "notify"]
    /\ hist' = HistOther(hist, [name |-> "Set", amount |-> amount,
                                before |-> cValue, after |-> cValue'])
    /\ UNCHANGED <<obj, clock, interval, sbVars, cNotify, prim, rValue, rNotify, cond, val, ret, ticker, ctxDone>>

\* A CompareAndSwap that defers notifyUpdate, as Add and Set do.
CounterCompareAndSwapNotifies(w, expected, replacement) ==
    LET cas == CompareAndSwapInt64(cValue, expected, replacement) IN
    /\ prim = "counter" /\ pc[w] = "idle"
    /\ cValue' = cas.value
    /\ pc' = [pc EXCEPT ![w] = "notify"]
    /\ hist' = HistCas(hist, [name |-> "CompareAndSwap", expected |-> expected,
                              replacement |-> replacement, before |-> cValue,
                              after |-> cValue', ret |-> cas.swapped])
    /\ UNCHANGED <<obj, clock, interval, sbVars, cNotify, prim, rValue, rNotify, cond, val, ret, ticker, ctxDone>>

\* CompareAndSwap, first step: atomic.CompareAndSwapInt64; notifyUpdate
\* follows only when it swapped, otherwise the call returns false at once.
CounterCompareAndSwap(w, expected, replacement) ==
    LET cas == CompareAndSwapInt64(cValue, expected, replacement) IN
    /\ prim = "counter" /\ pc[w] = "idle"
    /\ cValue' = cas.value
    /\ pc' = [pc EXCEPT ![w] = IF cas.swapped THEN "notify" ELSE "idle"]
    /\ hist' = HistCas(hist, [name |-> "CompareAndSwap", expected |-> expected,
                              replacement |-> replacement, before |-> cValue,
                              after |-> cValue', ret |-> cas.swapped])
    /\ UNCHANGED <<obj, clock, interval, sbVars, cNotify, prim, rValue, rNotify, cond, val, ret, ticker, ctxDone>>

\* A notifyUpdate that sends without a default branch: c.notify <- 0.
CounterNotifyBlocking(w) ==
    /\ prim = "counter" /\ pc[w] = "notify"
    /\ cNotify = 0
    /\ cNotify' = 1
    /\ pc' = [pc EXCEPT ![w] = "idle"]
    /\ UNCHANGED <<obj, clock, interval, sbVars, cValue, prim, rValue, rNotify, cond, val, ret, ticker, ctxDone, hist>>

\* notifyUpdate: the non-blocking send, after which the call returns.
CounterNotifyUpdate(w) ==
    /\ prim = "counter" /\ pc[w] = "notify"
    /\ cNotify' = TrySend(cNotify)
    /\ pc' = [pc EXCEPT ![w] = "idle"]
    /\ UNCHANGED <<obj, clock, interval, sbVars, cValue, prim, rValue, rNotify, cond, val, ret, ticker, ctxDone, hist>>

----------------------------------------------------------------------------
(* AtomicReference: Set.                                                   *)

\* A Set that stores nothing when the referent is nil.
RefSetSkipsNil(w, referent) ==
    /\ prim = "reference" /\ pc[w] = "idle"
    /\ rValue' = IF referent = Nil THEN rValue ELSE Pointer(referent)
    /\ pc' = [pc EXCEPT ![w] = "notify"]
    /\ hist' = HistOther(hist, [name |-> "Set", amount |-> referent,
                                before |-> rValue.referent, after |-> referent])
    /\ UNCHANGED <<obj, clock, interval, sbVars, rNotify, prim, cValue, cNotify, cond, val, ret, ticker, ctxDone>>

\* A Set that sends its notification where it should store the referent.
RefSetSendsFirst(w, referent) ==
    /\ prim = "reference" /\ pc[w] = "idle"
    /\ rNotify' = TrySend(rNotify)
    /\ pc' = [pc EXCEPT ![w] = "notify"]
    /\ hist' = HistOther(hist, [name |-> "Set", amount |-> referent,
                                before |-> rValue.referent, after |-> referent])
    /\ UNCHANGED <<obj, clock, interval, sbVars, rValue, prim, cValue, cNotify, cond, val, ret, ticker, ctxDone>>

\* Set, first step: v.value.Store(pointer{referent}).
RefSet(w, referent) ==
    /\ prim = "reference" /\ pc[w] = "idle"
    /\ rValue' = Pointer(referent)
    /\ pc' = [pc EXCEPT ![w] = "notify"]
    /\ hist' = HistOther(hist, [name |-> "Set", amount |-> referent,
                                before |-> rValue.referent, after |-> referent])
    /\ UNCHANGED <<obj, clock, interval, sbVars, rNotify, prim, cValue, cNotify, cond, val, ret, ticker, ctxDone>>

\* Set, second step: the non-blocking send, after which the call returns.
RefNotify(w) ==
    /\ prim = "reference" /\ pc[w] = "notify"
    /\ rNotify' = TrySend(rNotify)
    /\ pc' = [pc EXCEPT ![w] = "idle"]
    /\ UNCHANGED <<obj, clock, interval, sbVars, rValue, prim, cValue, cNotify, cond, val, ret, ticker, ctxDone, hist>>

\* Get: v.value.Load().(pointer).referent
RefGet == rValue.referent

----------------------------------------------------------------------------
(* Scoreboard: routing.  hash is 32-bit FNV-1a, computed here on the two   *)
(* 16-bit halves <<high, low>> of the hash so that no product leaves the   *)
(* range of the model checker's integers.                                  *)

RECURSIVE Xor(_, _)
Xor(x, y) ==
    IF x = 0 THEN y
    ELSE IF y = 0 THEN x
    ELSE (((x % 2) + (y % 2)) % 2) + 2 * Xor(x \div 2, y \div 2)

\* One byte of FNV-1a: hash ^= byte; hash *= 16777619 (0x0100 0193), mod 2^32.
FnvByte(h, byte) ==
    LET low == Xor(h[2], byte)
        product == low * 403
    IN  <<(h[1] * 403 + low * 256 + (product \div 65536)) % 65536, product % 65536>>

RECURSIVE FnvFrom(_, _)
FnvFrom(h, str) ==
    IF str = <<>> THEN h ELSE FnvFrom(FnvByte(h, Head(str)), Tail(str))

\* hash(str), from the offset basis 2166136261 (0x811C 9DC5).
Hash(str) == FnvFrom(<<33052, 40389>>, str)

\* The hashes of the model's keys.
KeyHash == [key \in Keys |-> Hash(key)]

\* A forKey that routes by the low half of the hash alone, reduced modulo
\* one more than the number of shards and clipped to the last shard.
ForKeyLow(key) ==
    LET index == KeyHash[key][2] % (nShards + 1) IN
    IF index >= nShards THEN nShards - 1 ELSE index

\* forKey: the index hash(key) % len(shards) of the key's shard.
ForKey(key) ==
    LET h == KeyHash[key] IN ((h[1] % nShards) * (65536 % nShards) + h[2]) % nShards

Shards == 0..(nShards - 1)

\* A map read, s.counters[key]: the zero value for an absent key.
MapGet(m, key) == IF key \in DOMAIN m THEN m[key] ELSE 0
\* delete(s.counters, key) and s.counters[key] = value.
MapDelete(m, key) == [k \in DOMAIN m \ {key} |-> m[k]]
MapPut(m, key, value) == [k \in DOMAIN m \cup {key} |-> IF k = key THEN value ELSE m[k]]
EmptyMap == [k \in {} |-> 0]

\* A plausible slip: a zero is stored like any other value.
StoredZero(m, key, value) == MapPut(m, key, value)

\* What add and set leave in the map for the key.
Stored(m, key, value) == IF value = 0 THEN MapDelete(m, key) ELSE MapPut(m, key, value)

\* The same at full width.
MapGetWide(m, key) == IF key \in DOMAIN m THEN m[key] ELSE Int64(0)
StoredWide(m, key, value) ==
    IF value = Int64(0) THEN MapDelete(m, key) ELSE MapPut(m, key, value)

\* Get(key) and View(), as they read when no call is in progress.
SbGet(key) == MapGet(sCounters[ForKey(key)], key)
SbView == [k \in UNION {DOMAIN sCounters[i] : i \in Shards} |->
              MapGet(sCounters[CHOOSE i \in Shards : k \in DOMAIN sCounters[i]], k)]

\* The scoreboard's contents as one map, for shard maps `counters`.
Contents(counters) ==
    [k \in UNION {DOMAIN counters[i] : i \in Shards} |->
        MapGet(counters[CHOOSE i \in Shards : k \in DOMAIN counters[i]], k)]

\* Those of the contents `boards` that agree with the map `view` on the
\* keys of the shards before shard i.
Agreeing(boards, view, i) ==
    {b \in boards : \A k \in Keys : ForKey(k) < i => MapGet(b, k) = MapGet(view, k)}

\* The readers and Clear are followed in this run.
Followed == "follow" \in DOMAIN hist

\* What is noted in a followed call `o` of another goroutine when a write
\* leaves the shard maps `counters`.
Noted(o, counters) ==
    IF ~Followed THEN o
    ELSE IF o.name = "View"
         THEN [o EXCEPT !.seen = @ \cup Agreeing({Contents(counters)}, o.view, o.shard)]
    ELSE IF o.name \in {"Clear", "Cleared"} THEN [o EXCEPT !.alone = FALSE]
    ELSE o

\* The calls of the goroutines after goroutine w's write.
Written(w, mine, counters) ==
    [p \in Procs |-> IF p = w THEN mine ELSE Noted(op[p], counters)]

----------------------------------------------------------------------------
(* Scoreboard: the mutators.  A call that needs a shard's lock starts when *)
(* it takes the lock (s.lock.Lock() returns); until then it is blocked.    *)
(* The amount a call was given is first read under the lock, so the model  *)
(* draws it there.                                                         *)

\* Add (Inc, Dec) and Set: forKey(key), then s.lock.Lock().
SbLock(w, key) ==
    /\ prim = "scoreboard" /\ pc[w] = "idle"
    /\ sLock[ForKey(key)] = "free"
    /\ sLock' = [sLock EXCEPT ![ForKey(key)] = w]
    /\ op' = [op EXCEPT ![w] = [name |-> "Mutate", key |-> key]]
    /\ pc' = [pc EXCEPT ![w] = "locked"]
    /\ UNCHANGED <<obj, clock, interval, prim, cValue, cNotify, rValue, rNotify, nShards, sNotify, sCounters,
                   cond, val, ret, ticker, ctxDone, hist>>

\* shard.add under the lock, and the deferred Unlock.
ShardAdd(w, amount) ==
    LET key == op[w].key
        s == ForKey(key)
        updated == AddInt64(MapGet(sCounters[s], key), amount)
    IN  /\ prim = "scoreboard" /\ pc[w] = "locked" /\ op[w].name = "Mutate"
        /\ updated \in Range
        /\ sCounters' = [sCounters EXCEPT ![s] = Stored(@, key, updated)]
        /\ sLock' = [sLock EXCEPT ![s] = "free"]
        /\ pc' = [pc EXCEPT ![w] = "notify"]
        /\ hist' = HistAdd(hist, key, amount,
                           [name |-> "Add", amount |-> amount,
                            before |-> SbGet(key), after |-> updated, ret |-> updated])
        /\ op' = Written(w, op[w], sCounters')
        /\ UNCHANGED <<obj, clock, interval, prim, cValue, cNotify, rValue, rNotify, nShards, sNotify,
                       cond, val, ret, ticker, ctxDone>>

\* shard.add at full width.
ShardAddWide(w, amount) ==
    LET key == op[w].key
        s == ForKey(key)
        updated == AddInt64Wide(MapGetWide(sCounters[s], key), amount)
    IN  /\ prim = "scoreboard" /\ pc[w] = "locked" /\ op[w].name = "Mutate"
        /\ hist.calls < MaxCalls
        /\ sCounters' = [sCounters EXCEPT ![s] = StoredWide(@, key, updated)]
        /\ sLock' = [sLock EXCEPT ![s] = "free"]
        /\ pc' = [pc EXCEPT ![w] = "notify"]
        /\ op' = [op EXCEPT ![w] = [name |-> "Mutate", key |-> key, amount |-> amount,
                                    ret |-> updated]]
        /\ hist' = [hist EXCEPT !.calls = @ + 1]
        /\ UNCHANGED <<obj, clock, interval, prim, cValue, cNotify, rValue, rNotify, nShards, sNotify,
                       cond, val, ret, ticker, ctxDone>>

\* shard.set under the lock, and the deferred Unlock.
ShardSet(w, amount) ==
    LET key == op[w].key
        s == ForKey(key)
    IN  /\ prim = "scoreboard" /\ pc[w] = "locked" /\ op[w].name = "Mutate"
        /\ sCounters' = [sCounters EXCEPT ![s] = Stored(@, key, amount)]
        /\ sLock' = [sLock EXCEPT ![s] = "free"]
        /\ pc' = [pc EXCEPT ![w] = "notify"]
        /\ hist' = HistOther(hist, [name |-> "Set", amount |-> amount,
                                    before |-> SbGet(key), after |-> amount])
        /\ op' = Written(w, op[w], sCounters')
        /\ UNCHANGED <<obj, clock, interval, prim, cValue, cNotify, rValue, rNotify, nShards, sNotify,
                       cond, val, ret, ticker, ctxDone>>

\* shard.notifyUpdate, deferred by add and set: the non-blocking send,
\* after which the call returns.
ShardNotifyUpdate(w) ==
    /\ prim = "scoreboard" /\ pc[w] = "notify"
    /\ sNotify' = [sNotify EXCEPT ![ForKey(op[w].key)] = TrySend(@)]
    /\ pc' = [pc EXCEPT ![w] = "idle"]
    /\ op' = [op EXCEPT ![w] = NoCall]
    /\ UNCHANGED <<obj, clock, interval, prim, cValue, cNotify, rValue, rNotify, nShards, sLock, sCounters,
                   cond, val, ret, ticker, ctxDone, hist>>

\* A call of Clear that is to visit shard i next.
ClearCall(i) ==
    IF Followed THEN [name |-> "Clear", shard |-> i, alone |-> TRUE]
    ELSE [name |-> "Clear", shard |-> i]

\* Clear: the loop over the shards; shard.clear takes the lock of the next one.
ClearLock(w) ==
    LET i == IF pc[w] = "idle" THEN 0 ELSE op[w].shard IN
    /\ prim = "scoreboard"
    /\ pc[w] = "idle" \/ (pc[w] = "clearing" /\ op[w].shard < nShards)
    /\ sLock[i] = "free"
    /\ sLock' = [sLock EXCEPT ![i] = w]
    /\ op' = [op EXCEPT ![w] = IF pc[w] = "idle" THEN ClearCall(0) ELSE @]
    /\ pc' = [pc EXCEPT ![w] = "locked"]
    /\ UNCHANGED <<obj, clock, interval, prim, cValue, cNotify, rValue, rNotify, nShards, sNotify, sCounters,
                   cond, val, ret, ticker, ctxDone, hist>>

\* shard.clear under the lock: s.counters = make(map[string]int64), and the
\* deferred Unlock.
ShardClear(w) ==
    LET i == op[w].shard IN
    /\ prim = "scoreboard" /\ pc[w] = "locked" /\ op[w].name = "Clear"
    /\ sCounters' = [sCounters EXCEPT ![i] = EmptyMap]
    /\ sLock' = [sLock EXCEPT ![i] = "free"]
    /\ op' = Written(w, [op[w] EXCEPT !.shard = i + 1], sCounters')
    /\ pc' = [pc EXCEPT ![w] = "clearing"]
    /\ hist' = HistOther(hist, [name |-> "Clear", shard |-> i])
    /\ UNCHANGED <<obj, clock, interval, prim, cValue, cNotify, rValue, rNotify, nShards, sNotify,
                   cond, val, ret, ticker, ctxDone>>

\* A loop that may end after its first round.
ClearReturnEarly(w) ==
    /\ prim = "scoreboard" /\ pc[w] = "clearing" /\ op[w].shard >= 1
    /\ pc' = [pc EXCEPT ![w] = "idle"]
    /\ op' = [op EXCEPT ![w] = IF Followed THEN [name |-> "Cleared", alone |-> @.alone]
                                            ELSE NoCall]
    /\ UNCHANGED <<obj, clock, interval, prim, cValue, cNotify, rValue, rNotify, nShards, sLock, sNotify, sCounters,
                   cond, val, ret, ticker, ctxDone, hist>>

\* Clear returns once the loop has visited every shard.
ClearReturn(w) ==
    /\ prim = "scoreboard" /\ pc[w] = "clearing" /\ op[w].shard = nShards
    /\ pc' = [pc EXCEPT ![w] = "idle"]
    /\ op' = [op EXCEPT ![w] = IF Followed THEN [name |-> "Cleared", alone |-> @.alone]
                                            ELSE NoCall]
    /\ UNCHANGED <<obj, clock, interval, prim, cValue, cNotify, rValue, rNotify, nShards, sLock, sNotify, sCounters,
                   cond, val, ret, ticker, ctxDone, hist>>

----------------------------------------------------------------------------
(* Scoreboard: the readers.  What a reader returned stays in op until the  *)
(* goroutine's next call.                                                  *)

\* A map read that leaves the zero value in the map for an absent key.
LookedStores(m, key) == MapPut(m, key, MapGet(m, key))

\* The map after the read s.counters[key]: a read adds no entry.
Looked(m, key) == m

\* Get(key): forKey(key).get(key), s.lock.Lock().
GetLock(w, key) ==
    /\ prim = "scoreboard" /\ pc[w] = "idle"
    /\ sLock[ForKey(key)] = "free"
    /\ sLock' = [sLock EXCEPT ![ForKey(key)] = w]
    /\ op' = [op EXCEPT ![w] = [name |-> "Get", key |-> key]]
    /\ pc' = [pc EXCEPT ![w] = "locked"]
    /\ UNCHANGED <<obj, clock, interval, prim, cValue, cNotify, rValue, rNotify, nShards, sNotify, sCounters,
                   cond, val, ret, ticker, ctxDone, hist>>

\* shard.get under the lock: return s.counters[key], and the deferred Unlock.
ShardGet(w) ==
    LET key == op[w].key
        s == ForKey(key)
    IN  /\ prim = "scoreboard" /\ pc[w] = "locked" /\ op[w].name = "Get"
        /\ sCounters' = [sCounters EXCEPT ![s] = Looked(@, key)]
        /\ sLock' = [sLock EXCEPT ![s] = "free"]
        /\ op' = [op EXCEPT ![w] = [name |-> "Got", key |-> key,
                                    ret |-> MapGet(sCounters[s], key)]]
        /\ pc' = [pc EXCEPT ![w] = "idle"]
        /\ UNCHANGED <<obj, clock, interval, prim, cValue, cNotify, rValue, rNotify, nShards, sNotify,
                       cond, val, ret, ticker, ctxDone, hist>>

\* View(): view := make(map[string]int64), then the loop over the shards;
\* shard.view takes the lock of the next one.
ViewLock(w) ==
    LET i == IF pc[w] = "idle" THEN 0 ELSE op[w].shard IN
    /\ prim = "scoreboard"
    /\ pc[w] = "idle" \/ (pc[w] = "viewing" /\ op[w].shard < nShards)
    /\ sLock[i] = "free"
    /\ sLock' = [sLock EXCEPT ![i] = w]
    /\ op' = [op EXCEPT ![w] = IF pc[w] = "idle"
                                THEN [name |-> "View", shard |-> 0, view |-> EmptyMap,
                                      seen |-> {Contents(sCounters)}]
                                ELSE @]
    /\ pc' = [pc EXCEPT ![w] = "locked"]
    /\ UNCHANGED <<obj, clock, interval, prim, cValue, cNotify, rValue, rNotify, nShards, sNotify, sCounters,
                   cond, val, ret, ticker, ctxDone, hist>>

\* A copy that takes one entry of the shard's map at most.
CopiedOne(view, m) ==
    IF DOMAIN m = {} THEN view
    ELSE LET k == CHOOSE key \in DOMAIN m : TRUE
         IN  [key \in DOMAIN view \cup {k} |-> IF key = k THEN m[k] ELSE view[key]]

\* The entries of a shard's map written into the map View() builds:
\* for k, v := range s.counters { view[k] = v }.
Copied(view, m) == [k \in DOMAIN view \cup DOMAIN m |-> IF k \in DOMAIN m THEN m[k] ELSE view[k]]

\* A shard.view that returns with the shard still locked.
ShardViewHolds(w) ==
    LET i == op[w].shard IN
    /\ prim = "scoreboard" /\ pc[w] = "locked" /\ op[w].name = "View"
    /\ op' = [op EXCEPT ![w] =
                 [@ EXCEPT !.view = Copied(@, sCounters[i]), !.shard = i + 1,
                           !.seen = Agreeing(@, Copied(op[w].view, sCounters[i]), i + 1)]]
    /\ pc' = [pc EXCEPT ![w] = "viewing"]
    /\ UNCHANGED <<obj, clock, interval, prim, cValue, cNotify, rValue, rNotify, nShards, sNotify, sCounters,
                   sLock, cond, val, ret, ticker, ctxDone, hist>>

\* shard.view under the lock, and the deferred Unlock.
ShardView(w) ==
    LET i == op[w].shard IN
    /\ prim = "scoreboard" /\ pc[w] = "locked" /\ op[w].name = "View"
    /\ op' = [op EXCEPT ![w] =
                 [@ EXCEPT !.view = Copied(@, sCounters[i]), !.shard = i + 1,
                           !.seen = Agreeing(@, Copied(op[w].view, sCounters[i]), i + 1)]]
    /\ sLock' = [sLock EXCEPT ![i] = "free"]
    /\ pc' = [pc EXCEPT ![w] = "viewing"]
    /\ UNCHANGED <<obj, clock, interval, prim, cValue, cNotify, rValue, rNotify, nShards, sNotify, sCounters,
                   cond, val, ret, ticker, ctxDone, hist>>

\* View returns the map once the loop has visited every shard.
ViewReturn(w) ==
    /\ prim = "scoreboard" /\ pc[w] = "viewing" /\ op[w].shard = nShards
    /\ pc' = [pc EXCEPT ![w] = "idle"]
    /\ op' = [op EXCEPT ![w] = [name |-> "Viewed", ret |-> @.view, seen |-> @.seen]]
    /\ UNCHANGED <<obj, clock, interval, prim, cValue, cNotify, rValue, rNotify, nShards, sLock, sNotify, sCounters,
                   cond, val, ret, ticker, ctxDone, hist>>

----------------------------------------------------------------------------
(* Deadline.  lastRun.time is an AtomicCounter (cValue, cNotify) holding   *)
(* the ticks of the last run.  What a call returned stays in op until the  *)
(* goroutine's next call.                                                  *)

\* History of a Deadline's run: whether Move was called, the clock reading
\* of the first TryRun (Epoch if none was called), the clock readings of
\* the TryRun calls that ran their action, and whether two of those calls
\* had the same reading.
HistDeadline == [on |-> FALSE, moved |-> FALSE, first |-> Epoch, runs |-> {}, twice |-> FALSE]

\* A test that lets a call through when the interval has just been reached.
ExceedsOrEqual(now, last) == now - last >= interval

\* now.Sub(last) > d.interval
Exceeds(now, last) == now - last > interval

\* Last() and Lapsed(), as they read when called now.
Last == cValue
Lapsed == Exceeds(clock, Last)

\* Elapsed(), as it reads when called now.
Elapsed == clock - Last

\* A call of Last(), Elapsed() or Lapsed(): the marker is loaded and the
\* call returns what it makes of it.
DeadlineReads(w, method) ==
    /\ prim = "deadline" /\ pc[w] = "idle"
    /\ op' = [op EXCEPT ![w] =
                 CASE method = "Last" -> [name |-> method, time |-> Last]
                   [] method = "Elapsed" -> [name |-> method, duration |-> Elapsed]
                   [] method = "Lapsed" -> [name |-> method, lapsed |-> Lapsed]]
    /\ UNCHANGED <<obj, clock, interval, cValue, cNotify, prim, rValue, rNotify, sbVarsButOp, pc,
                   cond, val, ret, ticker, ctxDone, hist>>

\* TryRun: now := time.Now().
TryRunNow(w) ==
    /\ prim = "deadline" /\ pc[w] = "idle"
    /\ op' = [op EXCEPT ![w] = [name |-> "TryRun", now |-> clock, last |-> Epoch]]
    /\ pc' = [pc EXCEPT ![w] = "now"]
    /\ hist' = [hist EXCEPT !.first = IF @ = Epoch THEN clock ELSE @]
    /\ UNCHANGED <<obj, clock, interval, cValue, cNotify, prim, rValue, rNotify, sbVarsButOp,
                   cond, val, ret, ticker, ctxDone>>

\* A TryRun that goes on to its compare-and-swap whatever the test says.
TryRunLastEager(w) ==
    /\ prim = "deadline" /\ pc[w] = "now"
    /\ op' = [op EXCEPT ![w].last = Last]
    /\ pc' = [pc EXCEPT ![w] = "cas"]
    /\ UNCHANGED <<obj, clock, interval, cValue, cNotify, prim, rValue, rNotify, sbVarsButOp,
                   cond, val, ret, ticker, ctxDone, hist>>

\* TryRun: last := d.Last(), and the test; the call returns false when the
\* interval is not exceeded.
TryRunLast(w) ==
    /\ prim = "deadline" /\ pc[w] = "now"
    /\ IF Exceeds(op[w].now, Last)
       THEN /\ op' = [op EXCEPT ![w].last = Last]
            /\ pc' = [pc EXCEPT ![w] = "cas"]
       ELSE /\ op' = [op EXCEPT ![w] = [name |-> "TryRan", ret |-> FALSE,
                                          now |-> @.now, last |-> Last]]
            /\ pc' = [pc EXCEPT ![w] = "idle"]
    /\ UNCHANGED <<obj, clock, interval, cValue, cNotify, prim, rValue, rNotify, sbVarsButOp,
                   cond, val, ret, ticker, ctxDone, hist>>

\* An ifSwapped that gives up without a compare-and-swap.
TryRunCasGivesUp(w) ==
    /\ prim = "deadline" /\ pc[w] = "cas"
    /\ pc' = [pc EXCEPT ![w] = "idle"]
    /\ op' = [op EXCEPT ![w] = [name |-> "TryRan", ret |-> FALSE,
                                now |-> @.now, last |-> @.last]]
    /\ UNCHANGED <<obj, clock, interval, cValue, cNotify, prim, rValue, rNotify, sbVarsButOp,
                   cond, val, ret, ticker, ctxDone, hist>>

\* ifSwapped: t.time.CompareAndSwap(expected.UnixNano(), replacement.UnixNano());
\* the call returns false when the swap fails.
TryRunCas(w) ==
    LET swap == CompareAndSwapInt64(cValue, op[w].last, op[w].now) IN
    /\ prim = "deadline" /\ pc[w] = "cas"
    /\ cValue' = swap.value
    /\ IF swap.swapped
       THEN /\ pc' = [pc EXCEPT ![w] = "swapped"]
            /\ op' = op
       ELSE /\ pc' = [pc EXCEPT ![w] = "idle"]
            /\ op' = [op EXCEPT ![w] = [name |-> "TryRan", ret |-> FALSE,
                                          now |-> @.now, last |-> @.last]]
    /\ UNCHANGED <<obj, clock, interval, cNotify, prim, rValue, rNotify, sbVarsButOp,
                   cond, val, ret, ticker, ctxDone, hist>>

\* The notifyUpdate of the CompareAndSwap that succeeded.
TryRunNotify(w) ==
    /\ prim = "deadline" /\ pc[w] = "swapped"
    /\ cNotify' = TrySend(cNotify)
    /\ pc' = [pc EXCEPT ![w] = "run"]
    /\ UNCHANGED <<obj, clock, interval, cValue, prim, rValue, rNotify, sbVars,
                   cond, val, ret, ticker, ctxDone, hist>>

\* A TryRun that moves the marker to the time its action completes.
TryRunActionStamps(w) ==
    /\ prim = "deadline" /\ pc[w] = "run"
    /\ cValue' = clock
    /\ hist' = [hist EXCEPT !.runs = @ \cup {op[w].now},
                            !.twice = @ \/ op[w].now \in hist.runs]
    /\ op' = [op EXCEPT ![w] = [name |-> "TryRan", ret |-> TRUE,
                                now |-> @.now, last |-> @.last]]
    /\ pc' = [pc EXCEPT ![w] = "idle"]
    /\ UNCHANGED <<obj, clock, interval, cNotify, prim, rValue, rNotify, sbVarsButOp,
                   cond, val, ret, ticker, ctxDone>>

\* ifSwapped: f(), return true.
TryRunAction(w) ==
    /\ prim = "deadline" /\ pc[w] = "run"
    /\ hist' = [hist EXCEPT !.runs = @ \cup {op[w].now},
                            !.twice = @ \/ op[w].now \in hist.runs]
    /\ op' = [op EXCEPT ![w] = [name |-> "TryRan", ret |-> TRUE,
                                now |-> @.now, last |-> @.last]]
    /\ pc' = [pc EXCEPT ![w] = "idle"]
    /\ UNCHANGED <<obj, clock, interval, cValue, cNotify, prim, rValue, rNotify, sbVarsButOp,
                   cond, val, ret, ticker, ctxDone>>

\* A Move that only moves the marker forward.
MoveSetLater(w, new) ==
    /\ prim = "deadline" /\ pc[w] = "idle"
    /\ cValue' = IF new > cValue THEN new ELSE cValue
    /\ op' = [op EXCEPT ![w] = [name |-> "Move", new |-> new]]
    /\ pc' = [pc EXCEPT ![w] = "moving"]
    /\ hist' = [hist EXCEPT !.moved = TRUE]
    /\ UNCHANGED <<obj, clock, interval, cNotify, prim, rValue, rNotify, sbVarsButOp,
                   cond, val, ret, ticker, ctxDone>>

\* Move(new): d.lastRun.set(new), the counter's Set up to its notifyUpdate.
MoveSet(w, new) ==
    /\ prim = "deadline" /\ pc[w] = "idle"
    /\ cValue' = new
    /\ op' = [op EXCEPT ![w] = [name |-> "Move", new |-> new]]
    /\ pc' = [pc EXCEPT ![w] = "moving"]
    /\ hist' = [hist EXCEPT !.moved = TRUE]
    /\ UNCHANGED <<obj, clock, interval, cNotify, prim, rValue, rNotify, sbVarsButOp,
                   cond, val, ret, ticker, ctxDone>>

\* The notifyUpdate of Move's Set; Move returns.
MoveNotify(w) ==
    /\ prim = "deadline" /\ pc[w] = "moving"
    /\ cNotify' = TrySend(cNotify)
    /\ op' = [op EXCEPT ![w] = [name |-> "Moved", new |-> @.new]]
    /\ pc' = [pc EXCEPT ![w] = "idle"]
    /\ UNCHANGED <<obj, clock, interval, cValue, prim, rValue, rNotify, sbVarsButOp,
                   cond, val, ret, ticker, ctxDone, hist>>

\* Time passes: the clock never goes back.
Elapse ==
    /\ prim = "deadline" /\ clock < MaxTime
    /\ clock' = clock + 1
    /\ UNCHANGED <<obj, interval, cValue, cNotify, prim, rValue, rNotify, sbVars, pc,
                   cond, val, ret, ticker, ctxDone, hist>>

----------------------------------------------------------------------------
(* The wait loop of AwaitCtx, which Await, Fill and Drain run with a       *)
(* context that expires at their timeout.                                  *)

\* The deferred sleepTicker.Stop() of a returning AwaitCtx.
Stopped(t) == IF t = "nil" THEN "nil" ELSE "stopped"
\* if sleepTicker == nil { sleepTicker = time.NewTicker(checkInterval) }
Armed(t) == IF t = "nil" THEN "armed" ELSE t

\* The call: the interval is resolved, nothing is read yet.
AwaitCtx(a, c) ==
    /\ pc[a] = "idle"
    /\ pc' = [pc EXCEPT ![a] = "read"]
    /\ cond' = [cond EXCEPT ![a] = c]
    /\ UNCHANGED <<obj, clock, interval, sbVars, prim, cValue, cNotify, rValue, rNotify, val, ret, ticker, ctxDone, hist>>

CounterAwaitCtx(a, c) == prim = "counter" /\ AwaitCtx(a, c)
RefAwaitCtx(a, c) == prim = "reference" /\ AwaitCtx(a, c)

\* Scoreboard.AwaitCtx(ctx, key, cond): forKey(key).await(ctx, key, cond).
ShardAwaitCtx(a, key, c) ==
    /\ prim = "scoreboard" /\ pc[a] = "idle"
    /\ pc' = [pc EXCEPT ![a] = "read"]
    /\ cond' = [cond EXCEPT ![a] = c]
    /\ op' = [op EXCEPT ![a] = [name |-> "AwaitCtx", key |-> key]]
    /\ UNCHANGED <<obj, clock, interval, prim, cValue, cNotify, rValue, rNotify, nShards, sLock, sNotify, sCounters,
                   val, ret, ticker, ctxDone, hist>>

\* AwaitCtx(ctx, cond, interval...): checkInterval := optional(def, interval...)
\* is the first statement; when it panics the goroutine goes no further.
Resolved(a, c, call, def, args) ==
    LET sole == optional(def, args) IN
    /\ pc[a] = "idle"
    /\ IF sole.panic
       THEN /\ pc' = [pc EXCEPT ![a] = "panicked"]
            /\ op' = [op EXCEPT ![a] = [name |-> "panic", args |-> args, err |-> sole.err]]
            /\ cond' = cond
       ELSE /\ pc' = [pc EXCEPT ![a] = "read"]
            /\ op' = [op EXCEPT ![a] = [name |-> call.name, key |-> call.key, args |-> args,
                                        checkInterval |-> sole.value]]
            /\ cond' = [cond EXCEPT ![a] = c]
    /\ UNCHANGED <<obj, clock, interval, prim, cValue, cNotify, rValue, rNotify, nShards, sLock, sNotify,
                   sCounters, val, ret, ticker, ctxDone, hist>>

CounterAwaitCtxInterval(a, c, args) ==
    /\ prim = "counter"
    /\ Resolved(a, c, [name |-> "AwaitCtx", key |-> <<>>], DefaultCounterCheckInterval, args)

RefAwaitCtxInterval(a, c, args) ==
    /\ prim = "reference"
    /\ Resolved(a, c, [name |-> "AwaitCtx", key |-> <<>>], DefaultReferenceCheckInterval, args)

\* Scoreboard.AwaitCtx: forKey(key).await(ctx, key, cond, interval...).
ShardAwaitCtxInterval(a, key, c, args) ==
    /\ prim = "scoreboard"
    /\ Resolved(a, c, [name |-> "AwaitCtx", key |-> key], DefaultScoreboardCheckInterval, args)

\* A pass that creates the ticker before it looks at the value.
AwaitCheckArms(a, value) ==
    /\ val' = [val EXCEPT ![a] = value]
    /\ IF Holds(cond[a], value)
       THEN /\ ret' = [ret EXCEPT ![a] = value]
            /\ pc' = [pc EXCEPT ![a] = "done"]
            /\ ticker' = [ticker EXCEPT ![a] = Stopped(Armed(@))]
       ELSE /\ ret' = ret
            /\ pc' = [pc EXCEPT ![a] = "select"]
            /\ ticker' = [ticker EXCEPT ![a] = Armed(@)]

\* A pass that returns the value it read whether or not cond holds of it.
AwaitCheckEager(a, value) ==
    /\ val' = [val EXCEPT ![a] = value]
    /\ ret' = [ret EXCEPT ![a] = value]
    /\ pc' = [pc EXCEPT ![a] = "done"]
    /\ ticker' = [ticker EXCEPT ![a] = Stopped(@)]

\* One pass of the loop up to the select: value := Get(); if cond(value)
\* { return value }; the ticker is created on the first pass that waits.
AwaitCheck(a, value) ==
    /\ val' = [val EXCEPT ![a] = value]
    /\ IF Holds(cond[a], value)
       THEN /\ ret' = [ret EXCEPT ![a] = value]
            /\ pc' = [pc EXCEPT ![a] = "done"]
            /\ ticker' = [ticker EXCEPT ![a] = Stopped(@)]
       ELSE /\ ret' = ret
            /\ pc' = [pc EXCEPT ![a] = "select"]
            /\ ticker' = [ticker EXCEPT ![a] = Armed(@)]

\* The history after a pass of goroutine a's loop: where the passes are
\* followed, those made once the context was done are counted (up to
\* MaxChecks).
Checked(h, a) ==
    IF "checks" \in DOMAIN h /\ ctxDone[a]
    THEN [h EXCEPT !.checks[a] = IF @ < MaxChecks THEN @ + 1 ELSE @]
    ELSE h

CounterAwaitRead(a) ==
    /\ prim = "counter" /\ pc[a] = "read"
    /\ AwaitCheck(a, cValue)
    /\ hist' = Checked(hist, a)
    /\ UNCHANGED <<obj, clock, interval, sbVars, prim, cValue, cNotify, rValue, rNotify, cond, ctxDone>>

RefAwaitRead(a) ==
    /\ prim = "reference" /\ pc[a] = "read"
    /\ AwaitCheck(a, RefGet)
    /\ hist' = Checked(hist, a)
    /\ UNCHANGED <<obj, clock, interval, sbVars, prim, cValue, cNotify, rValue, rNotify, cond, ctxDone>>

\* shard.get: s.lock.Lock().
ShardGetLock(a) ==
    /\ prim = "scoreboard" /\ pc[a] = "read"
    /\ sLock[ForKey(op[a].key)] = "free"
    /\ sLock' = [sLock EXCEPT ![ForKey(op[a].key)] = a]
    /\ pc' = [pc EXCEPT ![a] = "reading"]
    /\ UNCHANGED <<obj, clock, interval, prim, cValue, cNotify, rValue, rNotify, nShards, sNotify, sCounters, op,
                   cond, val, ret, ticker, ctxDone, hist>>

\* shard.get under the lock, its deferred Unlock, and the rest of the pass.
ShardAwaitRead(a) ==
    /\ prim = "scoreboard" /\ pc[a] = "reading"
    /\ AwaitCheck(a, MapGet(sCounters[ForKey(op[a].key)], op[a].key))
    /\ sLock' = [sLock EXCEPT ![ForKey(op[a].key)] = "free"]
    /\ hist' = Checked(hist, a)
    /\ UNCHANGED <<obj, clock, interval, prim, cValue, cNotify, rValue, rNotify, nShards, sNotify, sCounters, op,
                   cond, ctxDone>>

\* The primitive's value now.
Current(a) ==
    CASE prim = "counter" -> cValue
      [] prim = "reference" -> RefGet
      [] prim = "scoreboard" -> SbGet(op[a].key)

\* A cancellation branch that reads the primitive again.
OnDoneCurrent(value, current) == current

\* What the cancellation branch of the select returns: the local `value`.
OnDone(value, current) == value

\* The notification pending on the channel the waiter selects on.
Pending(a) ==
    CASE prim = "counter" -> cNotify
      [] prim = "reference" -> rNotify
      [] prim = "scoreboard" -> sNotify[ForKey(op[a].key)]

\* A select that looks at ctx.Done() only when no other case is ready.
SelectDoneLast(a) ==
    /\ pc[a] = "select" /\ ctxDone[a]
    /\ Pending(a) = 0 /\ ticker[a] # "fired"
    /\ ret' = [ret EXCEPT ![a] = OnDone(val[a], Current(a))]
    /\ pc' = [pc EXCEPT ![a] = "done"]
    /\ ticker' = [ticker EXCEPT ![a] = Stopped(@)]
    /\ UNCHANGED <<obj, clock, interval, sbVars, prim, cValue, cNotify, rValue, rNotify, cond, val, ctxDone, hist>>

\* select, case <-ctx.Done(): return value.
SelectDone(a) ==
    /\ pc[a] = "select" /\ ctxDone[a]
    /\ ret' = [ret EXCEPT ![a] = OnDone(val[a], Current(a))]
    /\ pc' = [pc EXCEPT ![a] = "done"]
    /\ ticker' = [ticker EXCEPT ![a] = Stopped(@)]
    /\ UNCHANGED <<obj, clock, interval, sbVars, prim, cValue, cNotify, rValue, rNotify, cond, val, ctxDone, hist>>

\* select, case <-c.notify: the notification is taken and the loop repeats.
CounterSelectNotify(a) ==
    /\ prim = "counter" /\ pc[a] = "select"
    /\ cNotify = 1
    /\ cNotify' = 0
    /\ pc' = [pc EXCEPT ![a] = "read"]
    /\ UNCHANGED <<obj, clock, interval, sbVars, cValue, prim, rValue, rNotify, cond, val, ret, ticker, ctxDone, hist>>

\* select, case <-v.notify.
RefSelectNotify(a) ==
    /\ prim = "reference" /\ pc[a] = "select"
    /\ rNotify = 1
    /\ rNotify' = 0
    /\ pc' = [pc EXCEPT ![a] = "read"]
    /\ UNCHANGED <<obj, clock, interval, sbVars, rValue, prim, cValue, cNotify, cond, val, ret, ticker, ctxDone, hist>>

\* select, case <-s.notify: the shard's notification, whatever key it was sent for.
ShardSelectNotify(a) ==
    /\ prim = "scoreboard" /\ pc[a] = "select"
    /\ sNotify[ForKey(op[a].key)] = 1
    /\ sNotify' = [sNotify EXCEPT ![ForKey(op[a].key)] = 0]
    /\ pc' = [pc EXCEPT ![a] = "read"]
    /\ UNCHANGED <<obj, clock, interval, prim, cValue, cNotify, rValue, rNotify, nShards, sLock, sCounters, op,
                   cond, val, ret, ticker, ctxDone, hist>>

\* A tick that is taken without going round the loop.
SelectTickIgnored(a) ==
    /\ pc[a] = "select" /\ ticker[a] = "fired"
    /\ ticker' = [ticker EXCEPT ![a] = "armed"]
    /\ UNCHANGED <<obj, clock, interval, sbVars, prim, cValue, cNotify, rValue, rNotify, pc, cond, val, ret, ctxDone, hist>>

\* select, case <-sleepTicker.C: the buffered tick is taken and the loop repeats.
SelectTick(a) ==
    /\ pc[a] = "select" /\ ticker[a] = "fired"
    /\ ticker' = [ticker EXCEPT ![a] = "armed"]
    /\ pc' = [pc EXCEPT ![a] = "read"]
    /\ UNCHANGED <<obj, clock, interval, sbVars, prim, cValue, cNotify, rValue, rNotify, cond, val, ret, ctxDone, hist>>

\* The runtime: a ticker's interval elapses and a tick is buffered in its
\* channel (capacity 1; a tick that finds the buffer full is dropped).
Tick(a) ==
    /\ ticker[a] = "armed"
    /\ ticker' = [ticker EXCEPT ![a] = "fired"]
    /\ UNCHANGED <<obj, clock, interval, sbVars, prim, cValue, cNotify, rValue, rNotify, pc, cond, val, ret, ctxDone, hist>>

\* The waiter's context becomes done: cancel() is called, or the deadline
\* that Timeout gave it passes.
CtxDone(a) ==
    /\ pc[a] \in {"read", "reading", "select"} /\ ~ctxDone[a]
    /\ ctxDone' = [ctxDone EXCEPT ![a] = TRUE]
    /\ UNCHANGED <<obj, clock, interval, sbVars, prim, cValue, cNotify, rValue, rNotify, pc, cond, val, ret, ticker, hist>>

----------------------------------------------------------------------------
(* Specifications.                                                         *)

Prims == {"counter", "reference", "scoreboard"}

\* The numbers of shards the scoreboards of the model are created with.
ShardCounts == 1..MaxShards

TypeOK ==
    /\ prim \in Prims \cup {"deadline"}
    /\ cValue \in (IF prim = "deadline" THEN Epoch..MaxTime ELSE Range) /\ cNotify \in 0..1
    /\ clock \in StartTime..MaxTime /\ interval \in Intervals
    /\ rValue.referent \in RefVals /\ rNotify \in 0..1
    /\ nShards \in ShardCounts
    /\ \A i \in Shards :
          /\ sLock[i] \in Procs \cup {"free"}
          /\ sNotify[i] \in 0..1
          /\ DOMAIN sCounters[i] \subseteq Keys
          /\ \A k \in DOMAIN sCounters[i] : sCounters[i][k] \in Range

\* A scoreboard holding the given scores.
Board(scores) ==
    [i \in Shards |-> [k \in {key \in DOMAIN scores : ForKey(key) = i /\ scores[key] # 0}
                          |-> scores[k]]]

\* What the local `value` of a call holds before its first read.
Zero == IF prim = "reference" THEN Nil ELSE 0

\* NewAtomicCounter(initial), NewAtomicReference(initial), or
\* NewScoreboard(concurrency) followed by Set(key, initial) for some keys,
\* and goroutines that have not called anything yet.
InitCommon ==
    /\ prim \in Prims
    /\ cValue \in (IF prim = "counter" THEN ArgVals ELSE {0})
    /\ cNotify = 0
    /\ rValue \in (IF prim = "reference" THEN {Pointer(v) : v \in RefVals} ELSE {Pointer(Nil)})
    /\ rNotify = 0
    /\ nShards \in (IF prim = "scoreboard" THEN ShardCounts ELSE {1})
    /\ sLock = [i \in Shards |-> "free"]
    /\ sNotify = [i \in Shards |-> 0]
    /\ sCounters \in (IF prim = "scoreboard"
                      THEN {Board(scores) : scores \in [Keys -> ArgVals]}
                      ELSE {[i \in Shards |-> EmptyMap]})
    /\ op = [p \in Procs |-> NoCall]
    /\ cond = [a \in Waiters |-> NoCall]
    /\ val = [a \in Waiters |-> Zero]
    /\ ret = [a \in Waiters |-> Zero]
    /\ ticker = [a \in Waiters |-> "nil"]
    /\ ctxDone = [a \in Waiters |-> FALSE]
    /\ clock = StartTime
    /\ obj = NoObject
    /\ interval = 0

\* The value of each cell of the primitive.
Cells ==
    CASE prim = "counter" -> [cell \in {"value"} |-> cValue]
      [] prim = "reference" -> [cell \in {"value"} |-> RefGet]
      [] prim = "scoreboard" -> [key \in Keys |-> SbGet(key)]

\* The goroutines of `team` take part in the run, the others never call.
Start(team) == pc = [p \in Procs |-> IF p \in team THEN "idle" ELSE "off"]

\* The mutators alone, with the history kept.
InitOps ==
    /\ InitCommon
    /\ Start(Writers)
    /\ hist = HistNew(Cells)

\* NewDeadline(interval), and goroutines that have not called anything yet.
InitDeadline ==
    /\ prim = "deadline"
    /\ cValue = Epoch /\ cNotify = 0
    /\ rValue = Pointer(Nil) /\ rNotify = 0
    /\ nShards = 1
    /\ sLock = [i \in Shards |-> "free"]
    /\ sNotify = [i \in Shards |-> 0]
    /\ sCounters = [i \in Shards |-> EmptyMap]
    /\ op = [p \in Procs |-> NoCall]
    /\ cond = [a \in Waiters |-> NoCall]
    /\ val = [a \in Waiters |-> 0]
    /\ ret = [a \in Waiters |-> 0]
    /\ ticker = [a \in Waiters |-> "nil"]
    /\ ctxDone = [a \in Waiters |-> FALSE]
    /\ clock = StartTime
    /\ obj = NoObject
    /\ interval \in Intervals
    /\ Start(Writers)
    /\ hist = HistDeadline

\* A scoreboard, new or with some scores set, and goroutines that call its
\* mutators and readers.
InitBoard ==
    /\ InitCommon
    /\ prim = "scoreboard"
    /\ Start(Writers)
    /\ hist = HistBoard

\* Writers and waiters: any team of goroutines of `procs` with a waiter in
\* it (one waiter at most on a scoreboard).
InitTeam(procs) ==
    /\ InitCommon
    /\ \E team \in SUBSET procs :
          /\ team \cap Waiters # {}
          /\ prim = "scoreboard" => Cardinality(team \cap Waiters) <= 1
          /\ Start(team)
    /\ hist = HistOff

InitWait == InitTeam(Procs)

\* One goroutine that mutates and one that waits, whose passes after the
\* cancellation are counted.
InitCancel ==
    /\ InitCommon
    /\ Start({"w1", "a1"})
    /\ hist = [on |-> FALSE, checks |-> [a \in Waiters |-> 0]]

\* One goroutine that mutates and the waiters, both of which may wait on
\* the same scoreboard.
InitCrowd ==
    /\ InitCommon
    /\ \E team \in SUBSET ({"w1"} \cup Waiters) :
          /\ team \cap Waiters # {}
          /\ Start(team)
    /\ hist = HistOff

\* One goroutine that mutates, and the waiters.
InitLive == InitTeam({"w1"} \cup Waiters)

\* One goroutine that mutates and one that waits.
InitPair == InitTeam({"w1", "a1"})

WriterStep(w) ==
    \/ \E amount \in Deltas : CounterAdd(w, amount)
    \/ \E amount \in ArgVals : CounterSet(w, amount)
    \/ \E e \in ArgVals, r \in ArgVals : CounterCompareAndSwap(w, e, r)
    \/ CounterNotifyUpdate(w)
    \/ \E referent \in RefVals : RefSet(w, referent)
    \/ RefNotify(w)
    \/ \E key \in Keys : SbLock(w, key)
    \/ \E amount \in Deltas : ShardAdd(w, amount)
    \/ \E amount \in ArgVals : ShardSet(w, amount)
    \/ ShardNotifyUpdate(w)
    \/ ClearLock(w)
    \/ ShardClear(w)
    \/ ClearReturn(w)

\* A waiter's steps other than those of its cancellation and ticker branches.
WaiterStep(a) ==
    \/ \E c \in Conds : CounterAwaitCtx(a, c)
    \/ \E c \in RefConds : RefAwaitCtx(a, c)
    \/ \E key \in Keys, c \in Conds : ShardAwaitCtx(a, key, c)
    \/ CounterAwaitRead(a)
    \/ RefAwaitRead(a)
    \/ ShardGetLock(a)
    \/ ShardAwaitRead(a)
    \/ CounterSelectNotify(a)
    \/ RefSelectNotify(a)
    \/ ShardSelectNotify(a)

NextOps == \E w \in Writers : WriterStep(w)

\* The calls of a scoreboard: mutators and readers.
ScoreboardStep(w) ==
    \/ \E key \in Keys : SbLock(w, key)
    \/ \E amount \in Deltas : ShardAdd(w, amount)
    \/ \E amount \in ArgVals : ShardSet(w, amount)
    \/ ShardNotifyUpdate(w)
    \/ ClearLock(w)
    \/ ShardClear(w)
    \/ ClearReturn(w)
    \/ \E key \in Keys : GetLock(w, key)
    \/ ShardGet(w)
    \/ ViewLock(w)
    \/ ShardView(w)
    \/ ViewReturn(w)

NextBoard == \E w \in Writers : ScoreboardStep(w)

\* The calls of a Deadline.
DeadlineStep(w) ==
    \/ TryRunNow(w)
    \/ TryRunLast(w)
    \/ TryRunCas(w)
    \/ TryRunNotify(w)
    \/ TryRunAction(w)
    \/ \E new \in {Epoch, clock} : MoveSet(w, new)
    \/ MoveNotify(w)

NextDeadline ==
    \/ \E w \in Writers : DeadlineStep(w)
    \/ Elapse

\* The calls of a Deadline, those that only read included.
NextMarker ==
    \/ \E w \in Writers : DeadlineStep(w)
    \/ \E w \in Writers, method \in {"Last", "Elapsed", "Lapsed"} : DeadlineReads(w, method)
    \/ Elapse

\* Neither ticker nor context does anything: the tickers' interval and the
\* timeout are longer than the run.
NextDeep ==
    \/ \E w \in Writers : WriterStep(w)
    \/ \E a \in Waiters : WaiterStep(a)

\* The tickers fire, the contexts stay open.
NextTick ==
    \/ \E w \in Writers : WriterStep(w)
    \/ \E a \in Waiters : WaiterStep(a)
    \/ \E a \in Waiters : SelectTick(a)
    \/ \E a \in Waiters : Tick(a)

Next ==
    \/ \E w \in Writers : WriterStep(w)
    \/ \E a \in Waiters : WaiterStep(a)
    \/ \E a \in Waiters : SelectDone(a)
    \/ \E a \in Waiters : SelectTick(a)
    \/ \E a \in Waiters : Tick(a)
    \/ \E a \in Waiters : CtxDone(a)

\* The optional argument of each constructor: its values and its default.
Initials ==
    CASE prim = "counter" -> ArgVals
      [] prim = "reference" -> RefVals
      [] prim = "scoreboard" -> ShardCounts
InitialDefault ==
    CASE prim = "counter" -> 0
      [] prim = "reference" -> Nil
      [] prim = "scoreboard" -> DefaultConcurrency

\* NewAtomicCounter(initial...), NewAtomicReference(initial...) or
\* NewScoreboard(concurrency...): when the constructor panics there is no
\* primitive and nobody calls; otherwise one goroutine mutates and one waits.
InitArity ==
    /\ prim \in Prims
    /\ \E args \in ArgLists(Initials) :
          LET sole == SoleUntyped(InitialDefault, args) IN
          /\ hist = [on |-> FALSE, args |-> args, sole |-> sole]
          /\ cValue = (IF prim = "counter" /\ ~sole.panic THEN sole.value ELSE 0)
          /\ rValue = Pointer(IF prim = "reference" /\ ~sole.panic THEN sole.value ELSE Nil)
          /\ nShards = (IF prim = "scoreboard" /\ ~sole.panic THEN sole.value ELSE 1)
          /\ Start(IF sole.panic THEN {} ELSE {"w1", "a1"})
    /\ cNotify = 0 /\ rNotify = 0
    /\ sLock = [i \in Shards |-> "free"]
    /\ sNotify = [i \in Shards |-> 0]
    /\ sCounters = [i \in Shards |-> EmptyMap]
    /\ op = [p \in Procs |-> NoCall]
    /\ cond = [a \in Waiters |-> NoCall]
    /\ val = [a \in Waiters |-> Zero]
    /\ ret = [a \in Waiters |-> Zero]
    /\ ticker = [a \in Waiters |-> "nil"]
    /\ ctxDone = [a \in Waiters |-> FALSE]
    /\ clock = StartTime
    /\ obj = NoObject
    /\ interval = 0

\* A waiter that passes its optional interval, up to its wake by a
\* notification.
IntervalStep(a) ==
    \/ \E c \in Conds, args \in ArgLists(Durations) : CounterAwaitCtxInterval(a, c, args)
    \/ \E c \in RefConds, args \in ArgLists(Durations) : RefAwaitCtxInterval(a, c, args)
    \/ \E key \in Keys, c \in Conds, args \in ArgLists(Durations) :
          ShardAwaitCtxInterval(a, key, c, args)
    \/ CounterAwaitRead(a)
    \/ RefAwaitRead(a)
    \/ ShardGetLock(a)
    \/ ShardAwaitRead(a)
    \/ CounterSelectNotify(a)
    \/ RefSelectNotify(a)
    \/ ShardSelectNotify(a)

NextArity ==
    \/ \E w \in Writers : WriterStep(w)
    \/ \E a \in Waiters : IntervalStep(a)

SpecArity == InitArity /\ [][NextArity]_vars

\* Values at and around the ends of the int64 range, and amounts that
\* take a value across them.
WideVals == {Int64(0), Int64(1), MaxInt64, MinInt64}
WideAmounts == {Int64(1), Int64(-1), MaxInt64, MinInt64}

\* A counter or a scoreboard holding such values, and two goroutines that
\* add to it, MaxCalls times in all.
InitWide ==
    /\ prim \in {"counter", "scoreboard"}
    /\ cValue \in (IF prim = "counter" THEN WideVals ELSE {Int64(0)})
    /\ cNotify = 0
    /\ rValue = Pointer(Nil) /\ rNotify = 0
    /\ nShards \in (IF prim = "scoreboard" THEN ShardCounts ELSE {1})
    /\ sLock = [i \in Shards |-> "free"]
    /\ sNotify = [i \in Shards |-> 0]
    /\ sCounters \in (IF prim = "scoreboard"
                      THEN {[i \in Shards |->
                               [k \in {key \in Keys : ForKey(key) = i /\ scores[key] # Int64(0)}
                                   |-> scores[k]]] : scores \in [Keys -> WideVals]}
                      ELSE {[i \in Shards |-> EmptyMap]})
    /\ op = [p \in Procs |-> NoCall]
    /\ cond = [a \in Waiters |-> NoCall]
    /\ val = [a \in Waiters |-> 0]
    /\ ret = [a \in Waiters |-> 0]
    /\ ticker = [a \in Waiters |-> "nil"]
    /\ ctxDone = [a \in Waiters |-> FALSE]
    /\ clock = StartTime
    /\ obj = NoObject
    /\ interval = 0
    /\ Start(Writers)
    /\ hist = [on |-> FALSE, calls |-> 0]

WideStep(w) ==
    \/ \E amount \in WideAmounts : CounterAddWide(w, amount)
    \/ CounterNotifyUpdate(w)
    \/ \E key \in Keys : SbLock(w, key)
    \/ \E amount \in WideAmounts : ShardAddWide(w, amount)
    \/ ShardNotifyUpdate(w)

NextWide == \E w \in Writers : WideStep(w)

SpecWide == InitWide /\ [][NextWide]_vars

\* The key the goroutines increment when the primitive is a scoreboard.
IncKey == <<97>>

\* A counter, or a scoreboard, and two goroutines that call Inc on it (on
\* the key IncKey), MaxCalls times in all, nobody else mutating; hist keeps
\* the value the counter or the key started with.
InitInc ==
    /\ prim \in {"counter", "scoreboard"}
    /\ cValue \in (IF prim = "counter" THEN WideVals ELSE {Int64(0)})
    /\ cNotify = 0
    /\ rValue = Pointer(Nil) /\ rNotify = 0
    /\ nShards \in (IF prim = "scoreboard" THEN ShardCounts ELSE {1})
    /\ sLock = [i \in Shards |-> "free"]
    /\ sNotify = [i \in Shards |-> 0]
    /\ sCounters \in (IF prim = "scoreboard"
                      THEN {[i \in Shards |->
                               [k \in {key \in Keys : ForKey(key) = i /\ scores[key] # Int64(0)}
                                   |-> scores[k]]] : scores \in [Keys -> WideVals]}
                      ELSE {[i \in Shards |-> EmptyMap]})
    /\ op = [p \in Procs |-> NoCall]
    /\ cond = [a \in Waiters |-> NoCall]
    /\ val = [a \in Waiters |-> 0]
    /\ ret = [a \in Waiters |-> 0]
    /\ ticker = [a \in Waiters |-> "nil"]
    /\ ctxDone = [a \in Waiters |-> FALSE]
    /\ clock = StartTime
    /\ obj = NoObject
    /\ interval = 0
    /\ Start(Writers)
    /\ hist = [on |-> FALSE, calls |-> 0,
               initial |-> IF prim = "counter" THEN cValue
                           ELSE MapGetWide(sCounters[ForKey(IncKey)], IncKey)]

\* Inc(): Add(1).
IncStep(w) ==
    \/ CounterAddWide(w, Int64(1))
    \/ CounterNotifyUpdate(w)
    \/ SbLock(w, IncKey)
    \/ ShardAddWide(w, Int64(1))
    \/ ShardNotifyUpdate(w)

NextInc == \E w \in Writers : IncStep(w)

SpecInc == InitInc /\ [][NextInc]_vars

----------------------------------------------------------------------------
(* fault.Fault.  calls and faults are AtomicCounters; Inc is the atomic    *)
(* add followed by the counter's notifyUpdate.  hist counts the calls of   *)
(* Try that have returned, and those that returned the error.              *)

\* First(n): the contingency occurs while f.Calls() <= n.
First(n, calls) == calls <= n

\* Try: f.calls.Inc(), the atomic add.
TryCallsInc(w) ==
    /\ prim = "fault" /\ pc[w] = "idle"
    /\ obj.calls < MaxCalls
    /\ obj' = [obj EXCEPT !.calls = AddInt64(@, 1)]
    /\ op' = [op EXCEPT ![w] = [name |-> "Try"]]
    /\ pc' = [pc EXCEPT ![w] = "callsNotify"]
    /\ UNCHANGED <<clock, interval, prim, cValue, cNotify, rValue, rNotify, sbVarsButOp,
                   cond, val, ret, ticker, ctxDone, hist>>

\* Try: f.calls.Inc(), the deferred notifyUpdate.
TryCallsNotify(w) ==
    /\ prim = "fault" /\ pc[w] = "callsNotify"
    /\ obj' = [obj EXCEPT !.callsNotify = TrySend(@)]
    /\ pc' = [pc EXCEPT ![w] = "cnt"]
    /\ UNCHANGED <<clock, interval, prim, cValue, cNotify, rValue, rNotify, sbVars,
                   cond, val, ret, ticker, ctxDone, hist>>

\* Try: f.spec.Cnt(f), which reads f.Calls(); return nil when it is false.
TryCnt(w) ==
    /\ prim = "fault" /\ pc[w] = "cnt"
    /\ IF First(obj.n, obj.calls)
       THEN /\ pc' = [pc EXCEPT ![w] = "faults"]
            /\ UNCHANGED <<op, hist>>
       ELSE /\ pc' = [pc EXCEPT ![w] = "idle"]
            /\ op' = [op EXCEPT ![w] = [name |-> "Tried", err |-> FALSE]]
            /\ hist' = [hist EXCEPT !.returned = @ + 1]
    /\ UNCHANGED <<obj, clock, interval, prim, cValue, cNotify, rValue, rNotify, sbVarsButOp,
                   cond, val, ret, ticker, ctxDone>>

\* Try: f.faults.Inc(), the atomic add.
TryFaultsInc(w) ==
    /\ prim = "fault" /\ pc[w] = "faults"
    /\ obj' = [obj EXCEPT !.faults = AddInt64(@, 1)]
    /\ pc' = [pc EXCEPT ![w] = "faultsNotify"]
    /\ UNCHANGED <<clock, interval, prim, cValue, cNotify, rValue, rNotify, sbVars,
                   cond, val, ret, ticker, ctxDone, hist>>

\* Try: f.faults.Inc(), the deferred notifyUpdate; return f.spec.Err.
TryFaultsNotify(w) ==
    /\ prim = "fault" /\ pc[w] = "faultsNotify"
    /\ obj' = [obj EXCEPT !.faultsNotify = TrySend(@)]
    /\ pc' = [pc EXCEPT ![w] = "idle"]
    /\ op' = [op EXCEPT ![w] = [name |-> "Tried", err |-> TRUE]]
    /\ hist' = [hist EXCEPT !.returned = @ + 1, !.errs = @ + 1]
    /\ UNCHANGED <<clock, interval, prim, cValue, cNotify, rValue, rNotify, sbVarsButOp,
                   cond, val, ret, ticker, ctxDone>>

\* Calls() and Faults().
Calls == obj.calls
Faults == obj.faults

\* Spec{First(n), err}.Build(), and two goroutines that call Try, MaxCalls
\* times in all.
InitFault ==
    /\ prim = "fault"
    /\ obj \in {[kind |-> "fault", n |-> n, calls |-> 0, callsNotify |-> 0,
                  faults |-> 0, faultsNotify |-> 0] : n \in 0..MaxCalls}
    /\ cValue = 0 /\ cNotify = 0
    /\ rValue = Pointer(Nil) /\ rNotify = 0
    /\ nShards = 1
    /\ sLock = [i \in Shards |-> "free"]
    /\ sNotify = [i \in Shards |-> 0]
    /\ sCounters = [i \in Shards |-> EmptyMap]
    /\ op = [p \in Procs |-> NoCall]
    /\ cond = [a \in Waiters |-> NoCall]
    /\ val = [a \in Waiters |-> 0]
    /\ ret = [a \in Waiters |-> 0]
    /\ ticker = [a \in Waiters |-> "nil"]
    /\ ctxDone = [a \in Waiters |-> FALSE]
    /\ clock = StartTime /\ interval = 0
    /\ Start(Writers)
    /\ hist = [on |-> FALSE, returned |-> 0, errs |-> 0]

FaultStep(w) ==
    \/ TryCallsInc(w)
    \/ TryCallsNotify(w)
    \/ TryCnt(w)
    \/ TryFaultsInc(w)
    \/ TryFaultsNotify(w)

NextFault == \E w \in Writers : FaultStep(w)

SpecFault == InitFault /\ [][NextFault]_vars

----------------------------------------------------------------------------
(* check.Wait(t, timeout, interval).UntilAsserted(a).  obj holds the       *)
(* capture c the assertion reports to, what has been reported to the       *)
(* tester t, and the ticker and the timer ("nil", "armed", "fired": a      *)
(* value is buffered in the channel, "stopped").  hist keeps the errors of *)
(* the most recent run of the assertion and whether the timer has fired.   *)

\* The errors one run of an assertion may report.
ErrorLists == ArgLists({"e1", "e2"})

\* ts.t.Errorf("Assertion not satisfied within %v: %s%s", ts.timeout, *captured, PrintStack(3))
NotSatisfied(timeout, captured) ==
    [format |-> "Assertion not satisfied within %v: %s%s",
     args |-> <<timeout, captured, "PrintStack(3)">>]
Reported(timeout, captures) ==
    [i \in 1..Len(captures) |-> NotSatisfied(timeout, captures[i])]

\* UntilAsserted(a), Until(p): c := NewTestCapture().
UntilAsserted(w) ==
    /\ prim = "wait" /\ pc[w] = "idle" /\ op[w] = NoCall
    /\ op' = [op EXCEPT ![w] = [name |-> "UntilAsserted"]]
    /\ pc' = [pc EXCEPT ![w] = "assert"]
    /\ UNCHANGED <<obj, clock, interval, prim, cValue, cNotify, rValue, rNotify, sbVarsButOp,
                   cond, val, ret, ticker, ctxDone, hist>>

\* One pass of the loop up to the select: a(c), which reports errs; return
\* true when c.Length() == 0; otherwise the ticker and the timer are
\* created if they do not exist yet.
AssertionRun(w, errs) ==
    LET captured == obj.captured \o errs IN
    /\ prim = "wait" /\ pc[w] = "assert"
    /\ obj.runs < MaxCalls
    /\ hist' = [hist EXCEPT !.lastRun = errs, !.failed = @ \/ (errs # <<>>)]
    /\ IF Len(captured) = 0
       THEN /\ obj' = [obj EXCEPT !.captured = captured, !.runs = @ + 1,
                                  !.ticker = Stopped(@), !.timer = Stopped(@)]
            /\ op' = [op EXCEPT ![w] = [name |-> "Asserted", ret |-> TRUE]]
            /\ pc' = [pc EXCEPT ![w] = "idle"]
       ELSE /\ obj' = [obj EXCEPT !.captured = captured, !.runs = @ + 1,
                                  !.ticker = Armed(@), !.timer = Armed(@)]
            /\ op' = op
            /\ pc' = [pc EXCEPT ![w] = "select"]
    /\ UNCHANGED <<clock, interval, prim, cValue, cNotify, rValue, rNotify, sbVarsButOp,
                   cond, val, ret, ticker, ctxDone>>

\* The runtime: the ticker's period passes, the timeout passes.
IntervalTickerFires ==
    /\ prim = "wait" /\ obj.ticker = "armed"
    /\ obj' = [obj EXCEPT !.ticker = "fired"]
    /\ UNCHANGED <<pc, clock, interval, prim, cValue, cNotify, rValue, rNotify, sbVars,
                   cond, val, ret, ticker, ctxDone, hist>>

TimeoutTimerFires ==
    /\ prim = "wait" /\ obj.timer = "armed"
    /\ obj' = [obj EXCEPT !.timer = "fired"]
    /\ hist' = [hist EXCEPT !.timedOut = TRUE]
    /\ UNCHANGED <<pc, clock, interval, prim, cValue, cNotify, rValue, rNotify, sbVars,
                   cond, val, ret, ticker, ctxDone>>

\* case <-timeoutTimer.C: report what c holds and return false.
UntilTimeout(w) ==
    /\ prim = "wait" /\ pc[w] = "select" /\ obj.timer = "fired"
    /\ obj' = [obj EXCEPT !.reported = @ \o Reported(obj.timeout, obj.captured),
                          !.ticker = Stopped(@), !.timer = "stopped"]
    /\ op' = [op EXCEPT ![w] = [name |-> "Asserted", ret |-> FALSE]]
    /\ pc' = [pc EXCEPT ![w] = "idle"]
    /\ UNCHANGED <<clock, interval, prim, cValue, cNotify, rValue, rNotify, sbVarsButOp,
                   cond, val, ret, ticker, ctxDone, hist>>

\* A tick that goes back to the assertion without c.Reset().
UntilTickKeeps(w) ==
    /\ prim = "wait" /\ pc[w] = "select" /\ obj.ticker = "fired"
    /\ obj' = [obj EXCEPT !.ticker = "armed"]
    /\ pc' = [pc EXCEPT ![w] = "assert"]
    /\ UNCHANGED <<clock, interval, prim, cValue, cNotify, rValue, rNotify, sbVars,
                   cond, val, ret, ticker, ctxDone, hist>>

\* case <-intervalTicker.C: then c.Reset(), and round the loop.
UntilTick(w) ==
    /\ prim = "wait" /\ pc[w] = "select" /\ obj.ticker = "fired"
    /\ obj' = [obj EXCEPT !.ticker = "armed", !.captured = <<>>]
    /\ pc' = [pc EXCEPT ![w] = "assert"]
    /\ UNCHANGED <<clock, interval, prim, cValue, cNotify, rValue, rNotify, sbVars,
                   cond, val, ret, ticker, ctxDone, hist>>

\* Wait(t, timeout, interval), and one goroutine that calls UntilAsserted
\* with an assertion it can run MaxCalls times.
InitUntil ==
    /\ prim = "wait"
    /\ obj \in {[kind |-> "wait", timeout |-> timeout, captured |-> <<>>, reported |-> <<>>,
                  ticker |-> "nil", timer |-> "nil", runs |-> 0] : timeout \in Durations}
    /\ cValue = 0 /\ cNotify = 0
    /\ rValue = Pointer(Nil) /\ rNotify = 0
    /\ nShards = 1
    /\ sLock = [i \in Shards |-> "free"]
    /\ sNotify = [i \in Shards |-> 0]
    /\ sCounters = [i \in Shards |-> EmptyMap]
    /\ op = [p \in Procs |-> NoCall]
    /\ cond = [a \in Waiters |-> NoCall]
    /\ val = [a \in Waiters |-> 0]
    /\ ret = [a \in Waiters |-> 0]
    /\ ticker = [a \in Waiters |-> "nil"]
    /\ ctxDone = [a \in Waiters |-> FALSE]
    /\ clock = StartTime /\ interval = 0
    /\ Start({"w1"})
    /\ hist = [on |-> FALSE, lastRun |-> <<>>, failed |-> FALSE, timedOut |-> FALSE]

NextUntil ==
    \/ \E w \in Writers : UntilAsserted(w)
    \/ \E w \in Writers, errs \in ErrorLists : AssertionRun(w, errs)
    \/ IntervalTickerFires
    \/ TimeoutTimerFires
    \/ \E w \in Writers : UntilTimeout(w)
    \/ \E w \in Writers : UntilTick(w)

SpecUntil == InitUntil /\ [][NextUntil]_vars

----------------------------------------------------------------------------
(* diags.Watch.  Each goroutine of Writers creates one Watcher; the        *)
(* goroutine that Watch starts for it is Spawned(w).  obj.of[w] holds the  *)
(* Watcher's timer ("nil", "armed", "fired", "stopped"), its done channel  *)
(* and how often its trigger has run.  A goroutine that finds no case of   *)
(* its select ready parks, and is woken by the first of the two events,    *)
(* which decides the case it takes.  hist keeps whether End() came before  *)
(* the timer fired, and whether it found the goroutine parked.             *)

Spawned(w) == IF w = "w1" THEN "a1" ELSE "a2"

\* Watch(operation, duration, trigger): make the Watcher, start the goroutine.
Watch(w) ==
    /\ prim = "watch" /\ pc[w] = "idle" /\ pc[Spawned(w)] = "off"
    /\ pc' = [pc EXCEPT ![w] = "watching", ![Spawned(w)] = "timer"]
    /\ UNCHANGED <<obj, clock, interval, prim, cValue, cNotify, rValue, rNotify, sbVars,
                   cond, val, ret, ticker, ctxDone, hist>>

\* The goroutine: timer := time.NewTimer(duration).
WatchNewTimer(w) ==
    /\ prim = "watch" /\ pc[Spawned(w)] = "timer"
    /\ obj' = [obj EXCEPT !.of[w].timer = "armed"]
    /\ pc' = [pc EXCEPT ![Spawned(w)] = "select"]
    /\ UNCHANGED <<clock, interval, prim, cValue, cNotify, rValue, rNotify, sbVars,
                   cond, val, ret, ticker, ctxDone, hist>>

\* The runtime: the duration has elapsed since the timer was created.
WatchTimerFires(w) ==
    /\ prim = "watch" /\ obj.of[w].timer = "armed"
    /\ obj' = [obj EXCEPT !.of[w].timer = "fired"]
    /\ pc' = [pc EXCEPT ![Spawned(w)] = IF @ = "parked" THEN "trigger" ELSE @]
    /\ UNCHANGED <<clock, interval, prim, cValue, cNotify, rValue, rNotify, sbVars,
                   cond, val, ret, ticker, ctxDone, hist>>

\* End(): close(w.done).
End(w) ==
    /\ prim = "watch" /\ pc[w] = "watching"
    /\ obj' = [obj EXCEPT !.of[w].done = "closed"]
    /\ pc' = [pc EXCEPT ![w] = "ended",
                        ![Spawned(w)] = IF @ = "parked" THEN "return" ELSE @]
    /\ hist' = [hist EXCEPT !.early[w] = obj.of[w].timer # "fired",
                            !.parked[w] = pc[Spawned(w)] = "parked"]
    /\ UNCHANGED <<clock, interval, prim, cValue, cNotify, rValue, rNotify, sbVars,
                   cond, val, ret, ticker, ctxDone>>

\* The goroutine comes to its select: it takes one of the cases that are
\* ready, whichever, and parks when none is.
WatchSelect(w) ==
    LET ready == {c \in {"trigger", "return"} :
                     \/ c = "trigger" /\ obj.of[w].timer = "fired"
                     \/ c = "return" /\ obj.of[w].done = "closed"}
    IN  /\ prim = "watch" /\ pc[Spawned(w)] = "select"
        /\ \E c \in (IF ready = {} THEN {"parked"} ELSE ready) :
              pc' = [pc EXCEPT ![Spawned(w)] = c]
        /\ UNCHANGED <<obj, clock, interval, prim, cValue, cNotify, rValue, rNotify, sbVars,
                       cond, val, ret, ticker, ctxDone, hist>>

\* case <-timer.C: trigger(w).
WatchTrigger(w) ==
    /\ prim = "watch" /\ pc[Spawned(w)] = "trigger"
    /\ obj' = [obj EXCEPT !.of[w].triggered = @ + 1]
    /\ pc' = [pc EXCEPT ![Spawned(w)] = "return"]
    /\ UNCHANGED <<clock, interval, prim, cValue, cNotify, rValue, rNotify, sbVars,
                   cond, val, ret, ticker, ctxDone, hist>>

\* The goroutine returns: the deferred timer.Stop().
WatchReturn(w) ==
    /\ prim = "watch" /\ pc[Spawned(w)] = "return"
    /\ obj' = [obj EXCEPT !.of[w].timer = "stopped"]
    /\ pc' = [pc EXCEPT ![Spawned(w)] = "exited"]
    /\ UNCHANGED <<clock, interval, prim, cValue, cNotify, rValue, rNotify, sbVars,
                   cond, val, ret, ticker, ctxDone, hist>>

\* Two goroutines that have not called Watch yet.
InitWatch ==
    /\ prim = "watch"
    /\ obj = [kind |-> "watch",
              of |-> [w \in Writers |-> [timer |-> "nil", done |-> "open", triggered |-> 0]]]
    /\ cValue = 0 /\ cNotify = 0
    /\ rValue = Pointer(Nil) /\ rNotify = 0
    /\ nShards = 1
    /\ sLock = [i \in Shards |-> "free"]
    /\ sNotify = [i \in Shards |-> 0]
    /\ sCounters = [i \in Shards |-> EmptyMap]
    /\ op = [p \in Procs |-> NoCall]
    /\ cond = [a \in Waiters |-> NoCall]
    /\ val = [a \in Waiters |-> 0]
    /\ ret = [a \in Waiters |-> 0]
    /\ ticker = [a \in Waiters |-> "nil"]
    /\ ctxDone = [a \in Waiters |-> FALSE]
    /\ clock = StartTime /\ interval = 0
    /\ Start(Writers)
    /\ hist = [on |-> FALSE, early |-> [w \in Writers |-> FALSE],
               parked |-> [w \in Writers |-> FALSE]]

WatchStep(w) ==
    \/ Watch(w)
    \/ WatchNewTimer(w)
    \/ WatchTimerFires(w)
    \/ End(w)
    \/ WatchSelect(w)
    \/ WatchTrigger(w)
    \/ WatchReturn(w)

NextWatch == \E w \in Writers : WatchStep(w)

\* The started goroutine runs, and the duration elapses; whether and when
\* Watch and End are called is up to the caller.
FairWatch ==
    /\ InitWatch /\ [][NextWatch]_vars
    /\ \A w \in Writers :
          /\ WF_vars(WatchNewTimer(w)) /\ WF_vars(WatchSelect(w))
          /\ WF_vars(WatchTrigger(w)) /\ WF_vars(WatchReturn(w))
          /\ WF_vars(WatchTimerFires(w))

----------------------------------------------------------------------------
(* Timeout and Forever.  obj holds, for each waiter, the context its call  *)
(* is given, made by Timeout or Forever from one parent context, and       *)
(* whether that parent has been cancelled.  A context is a record of the   *)
(* context it was derived from and its timeout; its expiry and its own     *)
(* cancel function are the step CtxDone.                                   *)

\* Indefinitely: longer than any run.
Indefinitely == MaxTime + 1

\* Timeout(parent, timeout):
\* context.WithDeadline(context.Background(), time.Now().Add(timeout)).
Timeout(parent, timeout) == [parent |-> "Background", timeout |-> timeout]

\* Forever(parent): Timeout(parent, Indefinitely).
Forever(parent) == Timeout(parent, Indefinitely)

\* The parent's cancel function is called: the parent is done, and with it
\* the contexts derived from it.
ParentCancel ==
    /\ obj.kind = "context" /\ ~obj.cancelled
    /\ obj' = [obj EXCEPT !.cancelled = TRUE]
    /\ ctxDone' = [a \in Waiters |-> ctxDone[a] \/ obj.ctx[a].parent = "parent"]
    /\ UNCHANGED <<clock, interval, sbVars, prim, cValue, cNotify, rValue, rNotify, pc, cond, val,
                   ret, ticker, hist>>

\* A primitive, one goroutine that mutates and one that waits, and contexts
\* made from a parent that is not cancelled yet.
InitParent ==
    /\ prim \in Prims
    /\ cValue \in (IF prim = "counter" THEN ArgVals ELSE {0})
    /\ cNotify = 0
    /\ rValue \in (IF prim = "reference" THEN {Pointer(v) : v \in RefVals} ELSE {Pointer(Nil)})
    /\ rNotify = 0
    /\ nShards \in (IF prim = "scoreboard" THEN ShardCounts ELSE {1})
    /\ sLock = [i \in Shards |-> "free"]
    /\ sNotify = [i \in Shards |-> 0]
    /\ sCounters \in (IF prim = "scoreboard"
                      THEN {Board(scores) : scores \in [Keys -> ArgVals]}
                      ELSE {[i \in Shards |-> EmptyMap]})
    /\ op = [p \in Procs |-> NoCall]
    /\ cond = [a \in Waiters |-> NoCall]
    /\ val = [a \in Waiters |-> Zero]
    /\ ret = [a \in Waiters |-> Zero]
    /\ ticker = [a \in Waiters |-> "nil"]
    /\ ctxDone = [a \in Waiters |-> FALSE]
    /\ clock = StartTime /\ interval = 0
    /\ \E made \in {Forever("parent")} \cup {Timeout("parent", d) : d \in Durations} :
          obj = [kind |-> "context", cancelled |-> FALSE, ctx |-> [a \in Waiters |-> made]]
    /\ Start({"w1", "a1"})
    /\ hist = HistOff

NextParent ==
    \/ Next
    \/ ParentCancel

\* The steps by which a mutator call that has begun runs to its return.
CallReturns(w) ==
    \/ CounterNotifyUpdate(w)
    \/ RefNotify(w)
    \/ \E amount \in Deltas : ShardAdd(w, amount)
    \/ \E amount \in ArgVals : ShardSet(w, amount)
    \/ ShardNotifyUpdate(w)
    \/ (pc[w] = "clearing" /\ ClearLock(w))
    \/ ShardClear(w)
    \/ ClearReturn(w)

\* Any step of a waiter's call.
Proceed(a) == WaiterStep(a) \/ SelectTick(a) \/ SelectDone(a)

\* The scheduler and the runtime: a goroutine that can take its next step
\* takes it; a goroutine that finds a mutex free again and again gets it
\* (sync.Mutex hands the lock over to a starving goroutine); a select
\* chooses at random among its ready cases, so a case that is ready again
\* and again is chosen.  Nothing makes a goroutine begin a mutator call
\* and nothing makes a context expire.
Fairness ==
    /\ \A w \in Writers : SF_vars(CallReturns(w))
    /\ \A a \in Waiters : WF_vars(Proceed(a))
    /\ \A a \in Waiters : SF_vars(ShardGetLock(a))
    /\ \A a \in Waiters : SF_vars(SelectDone(a))

\* An armed ticker fires when its interval has elapsed.
Ticking == \A a \in Waiters : WF_vars(Tick(a))

SpecOps == InitOps /\ [][NextOps]_vars
SpecBoard == InitBoard /\ [][NextBoard]_vars
SpecDeadline == InitDeadline /\ [][NextDeadline]_vars
SpecMarker == InitDeadline /\ [][NextMarker]_vars
Spec == InitWait /\ [][Next]_vars
SpecDeep == InitWait /\ [][NextDeep]_vars
SpecCancel == InitCancel /\ [][Next]_vars
FairParent == InitParent /\ [][NextParent]_vars /\ Fairness /\ Ticking
FairCrowd == InitCrowd /\ [][NextDeep]_vars /\ Fairness
FairDeep == InitLive /\ [][NextDeep]_vars /\ Fairness
FairTick == InitLive /\ [][NextTick]_vars /\ Fairness /\ Ticking
Fair == InitPair /\ [][Next]_vars /\ Fairness /\ Ticking

----------------------------------------------------------------------------
(* The mutators (SpecOps).                                                 *)

\* No mutator call is in progress: every call made so far has returned.
Quiescent == \A w \in Writers : pc[w] \in {"idle", "off"}

\* C1: when the only mutator calls made on a counter were Add (Inc, Dec)
\* and all of them have returned, in whatever order their steps ran, the
\* counter's value is its initial value plus the sum of the amounts added.
C1_CounterSum ==
    (prim = "counter" /\ hist.onlyAdds /\ Quiescent)
        => cValue = hist.initial["value"] + hist.sum["value"]

C1_Witness ==
    /\ prim = "counter" /\ hist.onlyAdds /\ Quiescent
    /\ hist.last.name = "Add" /\ hist.last.amount = -1
    /\ hist.sum["value"] = 1

\* C2: when the only mutator calls made on a scoreboard were Add (Inc,
\* Dec) and all of them have returned, every key's score is its initial
\* score plus the sum of the amounts added to it, and a key whose score is
\* 0 is not in View().
C2_ScoreboardSum ==
    (prim = "scoreboard" /\ hist.onlyAdds /\ Quiescent)
        => \A key \in Keys :
              /\ SbGet(key) = hist.initial[key] + hist.sum[key]
              /\ SbGet(key) = 0 => key \notin DOMAIN SbView

C2_Witness ==
    /\ prim = "scoreboard" /\ hist.onlyAdds /\ Quiescent
    /\ \E key \in Keys :
          /\ hist.initial[key] = 1 /\ hist.sum[key] = -1
          /\ SbGet(key) = 0 /\ key \notin DOMAIN SbView

\* C3: a CompareAndSwap returns true exactly when the counter's value at
\* its atomic step equals expected; that step leaves the replacement in the
\* counter when it returns true and the value as it was when it returns false.
C3_CasIff ==
    (prim = "counter" /\ hist.last.name = "CompareAndSwap")
        => /\ hist.last.ret = (hist.last.before = hist.last.expected)
           /\ hist.last.after = IF hist.last.ret THEN hist.last.replacement
                                                ELSE hist.last.before

C3_Witness ==
    /\ prim = "counter" /\ hist.last.name = "CompareAndSwap"
    /\ hist.last.ret /\ hist.last.replacement # hist.last.expected
    /\ cValue = hist.last.replacement

\* Every mutator call so far was a CompareAndSwap on the counter, and all
\* of them passed the same expected value.
RacingSwaps ==
    prim = "counter" /\ hist.onlyCas /\ Cardinality(hist.casExpected) = 1

\* C4 as stated: of the CompareAndSwap calls racing on one expected value
\* (no other mutator running), at most one returns true.
C4_Original == RacingSwaps => hist.casWins <= 1

\* C4, amended: of the CompareAndSwap calls racing on one expected value
\* with replacements that differ from it, at most one returns true.
C4_OneWinner == (RacingSwaps /\ ~hist.casSelf) => hist.casWins <= 1

C4_Witness ==
    /\ RacingSwaps /\ ~hist.casSelf /\ hist.casWins = 1
    /\ ~hist.last.ret
    /\ hist.last.before # hist.last.expected

----------------------------------------------------------------------------
(* The wait loop.                                                          *)

\* The goroutine has called AwaitCtx (Await, Fill, Drain).
Active(a) == pc[a] \notin {"off", "idle"}

\* The goroutine's condition holds of the primitive's value.
Sat(a) == IF Active(a) THEN Holds(cond[a], Current(a)) ELSE FALSE

\* The goroutine's call has returned a value its condition holds of.
Returned(a) == IF pc[a] = "done" THEN Holds(cond[a], ret[a]) ELSE FALSE

\* The goroutine is the only one that waits.
Solo(a) == \A b \in Waiters \ {a} : pc[b] = "off"

\* No Clear is in progress.
NoClear == \A w \in Writers : op[w].name # "Clear"

\* C5: with the tickers and the contexts out of play, a goroutine that is
\* the only waiter on a counter, a reference or a scoreboard, and whose
\* condition holds from some mutation on, returns a value its condition
\* holds of.
C5_DeepSleep ==
    \A a \in Waiters : (Solo(a) /\ <>[]Sat(a)) => <>Returned(a)

\* The state C5 excludes: the only waiter sleeps in its select, its
\* condition holds of the value a mutator left, no mutator call is in
\* progress and no notification is pending.
C5_Witness ==
    \E a \in Waiters :
        /\ Solo(a) /\ pc[a] = "select" /\ Sat(a) /\ Quiescent /\ Pending(a) = 0

\* The same with the mutators other than Clear, each of which sends its
\* notification after its store.
DeepSleepNoClear ==
    \A a \in Waiters : (Solo(a) /\ []NoClear /\ <>[]Sat(a)) => <>Returned(a)

\* Every waiter's condition holds of the counter's value.
AllSat == prim = "counter" /\ \A a \in Waiters : Sat(a)

\* C6 as stated: with the tickers out of play, when the conditions of the
\* goroutines waiting on a counter all hold from some mutation on, each of
\* them returns a value its condition holds of.
C6_Original == <>[]AllSat => \A a \in Waiters : <>Returned(a)

\* C6, amended: with the tickers out of play, when the conditions of the
\* goroutines waiting on a counter all hold from some mutation on, at least
\* one of them returns a value its condition holds of.
C6_OneWakes == <>[]AllSat => <>(\E a \in Waiters : Returned(a))

\* One waiter took the notification and returned, the other sleeps on.
C6_Witness ==
    /\ AllSat /\ Quiescent /\ cNotify = 0
    /\ \E a \in Waiters, b \in Waiters :
          /\ Returned(a)
          /\ pc[b] = "select" /\ ~Holds(cond[b], val[b])

\* C7: on a counter or a reference, whatever the number of waiters, a
\* waiter whose condition holds from some mutation on and whose ticker
\* fires returns a value its condition holds of.
C7_TickFallback ==
    \A a \in Waiters :
        (prim \in {"counter", "reference"} /\ <>[]Sat(a)) => <>Returned(a)

\* One waiter returned with the notification; the other, whose condition
\* holds too, is in its select with no notification to come, and its
\* ticker has fired.
C7_Witness ==
    /\ prim \in {"counter", "reference"} /\ Quiescent
    /\ \E a \in Waiters, b \in Waiters :
          /\ Returned(b)
          /\ pc[a] = "select" /\ Sat(a) /\ Pending(a) = 0 /\ ticker[a] = "fired"

\* The call has returned the value of its last read, of which its
\* condition does not hold.
TimedOut(a) ==
    IF pc[a] = "done" THEN ret[a] = val[a] /\ ~Holds(cond[a], ret[a]) ELSE FALSE

\* The call has returned, and what it returned is the value of its last
\* read if its condition does not hold of it.
Cancelled(a) ==
    IF pc[a] = "done" THEN ~Holds(cond[a], ret[a]) => ret[a] = val[a] ELSE FALSE

\* C8: a call whose condition never holds of the primitive's value returns
\* once its context has expired, and what it returns is the value of its
\* last read.
C8_TimeoutValue ==
    \A a \in Waiters :
        []~Sat(a) => (ctxDone[a] ~> TimedOut(a))

\* A counter holding 1, Drain(0) timed out and returned 1.
C8_Witness ==
    /\ prim = "counter" /\ cValue = 1
    /\ \E a \in Waiters :
          /\ pc[a] = "done" /\ ctxDone[a]
          /\ cond[a] = DrainCond(0) /\ ret[a] = 1

\* C9: a call whose context is done returns, whatever the mutators and the
\* ticker go on doing; if its condition does not hold of what it returns,
\* that is the value of its last read.
C9_CancelReturns ==
    \A a \in Waiters :
        ctxDone[a] ~> Cancelled(a)

\* A cancelled call has returned while a notification is pending and a
\* mutator call is in progress.
C9_Witness ==
    \E a \in Waiters :
        /\ pc[a] = "done" /\ ctxDone[a] /\ ~Holds(cond[a], ret[a])
        /\ Pending(a) = 1 /\ ~Quiescent

\* C10: the value a call has returned is the value of its last read, and
\* its condition holds of it unless its context was done.
C10_ReturnedValue ==
    \A a \in Waiters :
        pc[a] = "done" => /\ ret[a] = val[a]
                          /\ Holds(cond[a], ret[a]) \/ ctxDone[a]

\* A cancelled call returned a value that the primitive no longer holds.
C10_Witness ==
    \E a \in Waiters :
        /\ pc[a] = "done" /\ ctxDone[a]
        /\ ~Holds(cond[a], ret[a]) /\ ret[a] # Current(a)
        /\ Holds(cond[a], Current(a))

\* The goroutine takes the read of the first pass of its loop (no ticker
\* exists yet) and its condition holds of the primitive's value.
FirstReadSat(a) ==
    /\ pc[a] \in {"read", "reading"} /\ pc'[a] \notin {"read", "reading"}
    /\ ticker[a] = "nil"
    /\ Holds(cond[a], Current(a))

\* C11: a call whose condition holds of the value its first pass reads
\* returns that value in that pass, creates no ticker and leaves the
\* notification channel as it was, whether or not its context is done.
C11_FirstPass ==
    [][\A a \in Waiters :
          FirstReadSat(a) => /\ pc'[a] = "done" /\ ret'[a] = Current(a)
                             /\ ticker'[a] = "nil"
                             /\ Pending(a)' = Pending(a)]_vars

\* A call has returned in its first pass with its context done and a
\* notification pending.
C11_Witness ==
    \E a \in Waiters :
        /\ pc[a] = "done" /\ ticker[a] = "nil" /\ ctxDone[a]
        /\ Holds(cond[a], ret[a]) /\ Pending(a) = 1

----------------------------------------------------------------------------
(* The scoreboard's maps and readers (SpecBoard).                          *)

\* C12: in every state that the calls of Add, Set, Clear, Get and View
\* reach, in whatever order their steps run, no shard's map holds an entry
\* whose value is 0, every key of a map is in the shard it routes to, and
\* the keys absent from View() are those whose score is 0.
C12_Sparse ==
    prim = "scoreboard" =>
        /\ \A i \in Shards : \A k \in DOMAIN sCounters[i] :
               sCounters[i][k] # 0 /\ ForKey(k) = i
        /\ \A key \in Keys : SbGet(key) = 0 <=> key \notin DOMAIN SbView

\* A Set or Add has just written a key and waits to notify; a Get of that
\* key then returned 0, and the key has no entry.
C12_Witness ==
    \E w \in Writers, v \in Writers :
        /\ op[w].name = "Got" /\ op[w].ret = 0
        /\ pc[v] = "notify" /\ op[v].name = "Mutate" /\ op[v].key = op[w].key
        /\ op[w].key \notin DOMAIN sCounters[ForKey(op[w].key)]

\* C13: when a Clear has returned and no other goroutine has written to
\* the scoreboard since that Clear began, every shard is empty: View() is
\* the empty map and Get(key) is 0 for every key.
C13_ClearEmpties ==
    \A w \in Writers :
        (prim = "scoreboard" /\ pc[w] = "idle" /\ op[w].name = "Cleared" /\ op[w].alone)
            => /\ SbView = EmptyMap
               /\ \A key \in Keys : SbGet(key) = 0
               /\ \A i \in Shards : sCounters[i] = EmptyMap

\* A goroutine read a score that was not 0; then a Clear of a scoreboard
\* of several shards ran alone and returned.
C13_Witness ==
    \E w \in Writers, v \in Writers :
        /\ pc[w] = "idle" /\ op[w].name = "Cleared" /\ op[w].alone
        /\ nShards > 1
        /\ op[v].name = "Got" /\ op[v].ret # 0

\* Goroutine w's View copies the shard it holds the lock of.
Copies(w) == op[w].name = "View" /\ pc[w] = "locked" /\ pc'[w] = "viewing"

\* C14: the step in which a View visits a shard leaves in the map it
\* builds, for every key of that shard, the entry the shard's map has at
\* that step, and leaves the entries copied from other shards as they were;
\* the map View returns is the map so built.
C14_ShardSnapshot ==
    [][\A w \in Writers :
          /\ Copies(w) =>
                \A k \in Keys :
                    LET from == IF ForKey(k) = op[w].shard THEN sCounters[ForKey(k)]
                                                          ELSE op[w].view
                    IN  /\ k \in DOMAIN op'[w].view <=> k \in DOMAIN from
                        /\ MapGet(op'[w].view, k) = MapGet(from, k)
          /\ (pc[w] = "viewing" /\ pc'[w] = "idle") => op'[w].ret = op[w].view]_vars

\* A View has returned a map that the scoreboard's contents equalled at no
\* instant between its call and its return.
C14_Witness ==
    \E w \in Writers :
        /\ pc[w] = "idle" /\ op[w].name = "Viewed"
        /\ op[w].ret \notin op[w].seen

----------------------------------------------------------------------------
(* Deadline (SpecDeadline).                                                *)

\* The goroutines whose TryRun has won the swap and has yet to run its action.
Winning == {w \in Writers : pc[w] \in {"swapped", "run"}}

\* TryRun was called, every call made so far read the clock within one
\* interval of the first call's reading, and Move was not called.
OneInterval ==
    /\ prim = "deadline" /\ interval > 0
    /\ ~hist.moved
    /\ hist.first # Epoch /\ clock - hist.first <= interval

C16_OncePerInterval ==
    (prim = "deadline" /\ ~hist.moved) =>
        /\ ~hist.twice
        /\ \A s \in hist.runs, t \in hist.runs : s < t => t - s > interval
        /\ \A w \in Winning : op[w].now - op[w].last > interval /\ Last >= op[w].now
        /\ \A w \in Writers :
              (op[w].name = "TryRan" /\ op[w].ret) => op[w].now - op[w].last > interval

\* The action has run twice, and the second run's swap was raced by a call
\* that had read the same marker.
C16_Witness ==
    /\ prim = "deadline" /\ ~hist.moved /\ interval > 0
    /\ Cardinality(hist.runs) >= 2
    /\ \E w \in Writers, v \in Writers :
          /\ op[w].name = "TryRan" /\ op[w].ret /\ op[w].last # Epoch
          /\ op[v].name = "TryRan" /\ ~op[v].ret /\ op[v].last = op[w].last
          /\ op[v].now - op[v].last > interval

\* The steps of goroutine w that C17 speaks of: Move's store, TryRun's test,
\* TryRun's swap on a marker that is still the one it read, and the action.
MoveStep(w) == pc[w] = "idle" /\ pc'[w] = "moving"
TestStep(w) == pc[w] = "now" /\ pc'[w] # "now"
SwapStep(w) == pc[w] = "cas" /\ pc'[w] # "cas" /\ Last = op[w].last
ActionStep(w) == pc[w] = "run" /\ pc'[w] = "idle"

C18_NilFirstClass ==
    prim = "reference" =>
        /\ rValue \in {Pointer(v) : v \in RefVals}
        /\ RefGet \in RefVals
        /\ hist.last = NoCall => RefGet = hist.initial.value
        /\ hist.last.name = "Set" => RefGet = hist.last.amount

\* A reference created holding nil was set to something else and then back
\* to nil, which is what Get() returns.
C18_Witness ==
    /\ prim = "reference" /\ hist.initial.value = Nil
    /\ hist.last.name = "Set" /\ hist.last.before # Nil /\ hist.last.amount = Nil
    /\ RefGet = Nil

\* The notification step of a mutator call of goroutine w, and the slot it
\* sends to.
NotifyStep(w) == CounterNotifyUpdate(w) \/ RefNotify(w) \/ ShardNotifyUpdate(w)
Slot(w) ==
    CASE prim = "counter" -> cNotify
      [] prim = "reference" -> rNotify
      [] prim = "scoreboard" -> sNotify[ForKey(op[w].key)]
Waiting == {a \in Waiters : pc[a] \notin {"idle", "off"}}

\* C19: a mutator call that has come to its notification can always take
\* that step, whatever the slot holds and whoever waits; the step returns
\* the call, leaves the slot full, and changes nothing when the slot was
\* full already.
C19_NeverBlocks ==
    /\ [](\A w \in Writers : pc[w] = "notify" => ENABLED NotifyStep(w))
    /\ [][\A w \in Writers :
            (pc[w] = "notify" /\ pc'[w] # "notify") =>
                /\ pc'[w] = "idle"
                /\ cNotify' = (IF prim = "counter" THEN 1 ELSE cNotify)
                /\ rNotify' = (IF prim = "reference" THEN 1 ELSE rNotify)
                /\ sNotify' = (IF prim = "scoreboard"
                               THEN [sNotify EXCEPT ![ForKey(op[w].key)] = 1]
                               ELSE sNotify)
                /\ (Slot(w) = 1 => UNCHANGED <<obj, cNotify, rNotify, sNotify>>)]_vars

\* Nobody waits, the slot is full, and a mutator call has come to its
\* notification, which has nowhere to go.
C19_Witness ==
    /\ Waiting = {}
    /\ \E w \in Writers : pc[w] = "notify" /\ Slot(w) = 1

\* The step is the atomic compare-and-swap of a CompareAndSwap call.
CasStep ==
    /\ prim = "counter" /\ hist'.last.name = "CompareAndSwap"
    /\ hist' # hist \/ \E w \in Writers : pc[w] = "idle" /\ pc'[w] # "idle"

\* C20: a CompareAndSwap that returns false has returned with its
\* compare-and-swap, leaving the value and the notification slot as they
\* were; one that returns true goes on to notifyUpdate, and only such a call
\* does.
C20_FailedCasFrame ==
    [][CasStep =>
        IF hist'.last.ret
        THEN \E w \in Writers :
                /\ pc[w] = "idle"
                /\ pc' = [pc EXCEPT ![w] = "notify"]
                /\ cNotify' = cNotify
        ELSE /\ pc' = pc
             /\ cValue' = cValue /\ cValue = hist'.last.before
             /\ cNotify' = cNotify]_vars

\* The latest call was a CompareAndSwap that returned false while the slot
\* was empty; every call has returned and the slot is still empty.
C20_Witness ==
    /\ prim = "counter" /\ Quiescent
    /\ hist.last.name = "CompareAndSwap" /\ ~hist.last.ret
    /\ cValue = hist.last.before /\ cNotify = 0

\* What the constructor made of its optional argument.
Constructed ==
    CASE prim = "counter" -> cValue
      [] prim = "reference" -> RefGet
      [] prim = "scoreboard" -> nShards

\* The notification slots and what the waiters have read and returned.
Consumable == <<cNotify, rNotify, sNotify, val, ret, ticker, sLock>>

\* C21: a constructor given more than one optional argument panics with
\* "Expected at most 1 argument(s), got N" and builds nothing; given none
\* it uses the default and given one it uses that one.  An AwaitCtx does
\* the same with its interval: with more than one it panics in its first
\* step, before it has read the value or taken a notification, and
\* otherwise its check interval is the default or the argument.
C21_SoleArgument ==
    /\ LET n == Len(hist.args) IN
       /\ hist.sole.panic = (n > 1)
       /\ n > 1 => /\ hist.sole.err = ExpectedAtMost(1, n)
                   /\ \A p \in Procs : pc[p] = "off"
       /\ n = 0 => Constructed = InitialDefault
       /\ n = 1 => Constructed = hist.args[1]
    /\ [][\A a \in Waiters :
            (pc[a] = "idle" /\ pc'[a] # "idle") =>
                LET n == Len(op'[a].args) IN
                /\ (pc'[a] = "panicked") = (n > 1)
                /\ n > 1 => /\ op'[a].err = ExpectedAtMost(1, n)
                            /\ UNCHANGED Consumable
                /\ n = 0 => op'[a].checkInterval =
                                (CASE prim = "counter" -> DefaultCounterCheckInterval
                                   [] prim = "reference" -> DefaultReferenceCheckInterval
                                   [] prim = "scoreboard" -> DefaultScoreboardCheckInterval)
                /\ n = 1 => op'[a].checkInterval = op'[a].args[1]]_vars

\* An AwaitCtx given two intervals has panicked while a notification was
\* pending: the notification is still there and nothing was read.
C21_Witness ==
    /\ "args" \in DOMAIN hist
    /\ \E a \in Waiters :
          /\ pc[a] = "panicked" /\ Len(op[a].args) = 2
          /\ val[a] = Zero
          /\ cNotify + rNotify + sNotify[0] = 1

\* hash(key) % count, for the 32-bit hash <<high, low>> of the key.
Home(key, count) ==
    LET h == Hash(key) IN ((h[1] % count) * (65536 % count) + h[2]) % count

\* C22: the scoreboard keeps the shards it was built with, and a key that
\* is stored (so with a nonzero score) is stored in shard
\* hash(key) % len(shards) and in no other; FNV-1a gives "a" the hash
\* 0xE40C292C and "b" the hash 0xE70C2DE5.
C22_Routing ==
    /\ [](prim = "scoreboard" =>
            /\ Hash(<<97>>) = <<58380, 10540>> /\ Hash(<<98>>) = <<59148, 11749>>
            /\ DOMAIN sCounters = 0..(nShards - 1)
            /\ \A i \in DOMAIN sCounters : \A key \in DOMAIN sCounters[i] :
                  i = Home(key, nShards) /\ sCounters[i][key] # 0)
    /\ [][nShards' = nShards /\ DOMAIN sCounters' = DOMAIN sCounters
                             /\ DOMAIN sLock' = DOMAIN sLock]_vars

\* On two shards, after a Clear has returned, both keys have been written
\* again and each sits in its own shard.
C22_Witness ==
    /\ prim = "scoreboard" /\ nShards = 2
    /\ \E w \in Writers : op[w].name = "Cleared"
    /\ <<97>> \in DOMAIN sCounters[0] /\ <<98>> \in DOMAIN sCounters[1]

\* The shards whose lock goroutine w holds.
Held(w) == {i \in Shards : sLock[i] = w}

\* C23: a goroutine holds a shard's lock only inside a shard method, and
\* then only the lock of the shard that method works on: the key's shard
\* for Add, Set and Get, the shard the loop has come to for View and Clear.
\* A goroutine that holds a lock can take its next step; a call on a key
\* can start whenever the lock of the key's shard is free, whoever holds
\* the locks of other shards; and whenever a call is in progress, that call
\* or the holder of some lock can take a step.
C23_OneLock ==
    prim = "scoreboard" =>
        \A w \in Writers :
            /\ Cardinality(Held(w)) <= 1
            /\ (pc[w] = "locked") = (Held(w) # {})
            /\ (pc[w] = "locked" /\ op[w].name \in {"Mutate", "Get"})
                   => Held(w) = {ForKey(op[w].key)}
            /\ (pc[w] = "locked" /\ op[w].name \in {"Clear", "View"})
                   => Held(w) = {op[w].shard}
            /\ Held(w) # {} => ENABLED ScoreboardStep(w)
            /\ pc[w] = "idle" =>
                  \A key \in Keys :
                      sLock[ForKey(key)] = "free"
                          => ENABLED SbLock(w, key) /\ ENABLED GetLock(w, key)
            /\ pc[w] # "idle" =>
                  \/ ENABLED ScoreboardStep(w)
                  \/ \E v \in Writers \ {w} : Held(v) # {} /\ ENABLED ScoreboardStep(v)

\* Two goroutines hold the locks of two different shards at once, one of
\* them in the second round of a Clear or a View, the other in a call on
\* a key of the first shard.
C23_Witness ==
    /\ prim = "scoreboard" /\ nShards >= 2
    /\ \E w \in Writers, v \in Writers :
          /\ Held(w) = {1} /\ op[w].name \in {"Clear", "View"}
          /\ Held(v) = {0} /\ op[v].name \in {"Mutate", "Get"}

\* The step in which a call reads the value and tests its condition.
ReadStep(a) == pc[a] \in {"read", "reading"} /\ pc'[a] \notin {"read", "reading"}

\* C24: on a counter or a scoreboard key, a Fill(atLeast) returns from a
\* read exactly when the value read is >= atLeast and then returns that
\* value, a Drain(atMost) exactly when it is <= atMost; so a call that has
\* returned with its context still open returned a value within its
\* bound, the bound itself included, and a call whose bound holds at its
\* first read returns there.
C24_FillDrain ==
    /\ [](\A a \in Waiters : \A n \in 0..MaxVal :
            (prim # "reference" /\ pc[a] = "done" /\ ~ctxDone[a]) =>
                /\ cond[a] = FillCond(n) => ret[a] >= n
                /\ cond[a] = DrainCond(n) => ret[a] <= n)
    /\ [][\A a \in Waiters : \A n \in 0..MaxVal :
            (prim # "reference" /\ ReadStep(a)) =>
                /\ cond[a] = FillCond(n) =>
                      /\ (pc'[a] = "done") = (Current(a) >= n)
                      /\ pc'[a] = "done" => ret'[a] = Current(a)
                /\ cond[a] = DrainCond(n) =>
                      /\ (pc'[a] = "done") = (Current(a) <= n)
                      /\ pc'[a] = "done" => ret'[a] = Current(a)]_vars

\* A Fill on a scoreboard key has waited and then returned, its context
\* still open, the very value it asked for.
C24_Witness ==
    /\ prim = "scoreboard"
    /\ \E a \in Waiters :
          /\ pc[a] = "done" /\ ~ctxDone[a] /\ ticker[a] = "stopped"
          /\ cond[a] = FillCond(MaxVal) /\ ret[a] = MaxVal

\* sum is v + amount modulo 2^64: limb by limb the two sides agree once the
\* carries, each 0 or 1, are accounted for, the last one dropped.
Congruent(sum, v, amount) ==
    \E c \in [1..4 -> {0, 1}] :
        /\ v[4] + amount[4] = sum[4] + c[4] * Limb
        /\ v[3] + amount[3] + c[4] = sum[3] + c[3] * Limb
        /\ v[2] + amount[2] + c[3] = sum[2] + c[2] * Limb
        /\ v[1] + amount[1] + c[2] = sum[1] + c[1] * Limb

\* The step in which an Add of goroutine w adds, and the value it adds to.
AddStep(w) == pc[w] \in {"idle", "locked"} /\ pc'[w] = "notify"
Addend(w) ==
    IF prim = "counter" THEN cValue
    ELSE MapGetWide(sCounters[ForKey(op[w].key)], op[w].key)

\* C25: an Add can be made with any amount on any value; what it returns
\* is an int64 congruent to value + amount modulo 2^64, so that
\* MaxInt64 + 1 gives MinInt64 and MinInt64 - 1 gives MaxInt64; the counter
\* then holds that result, and the scoreboard key holds it unless it is 0,
\* in which case the key has no entry.
C25_Wraps ==
    /\ [](\A w \in Writers : \A amount \in WideAmounts :
            /\ (prim = "counter" /\ pc[w] = "idle" /\ hist.calls < MaxCalls)
                   => ENABLED CounterAddWide(w, amount)
            /\ (prim = "scoreboard" /\ pc[w] = "locked" /\ hist.calls < MaxCalls)
                   => ENABLED ShardAddWide(w, amount))
    /\ [][\A w \in Writers :
            AddStep(w) =>
                LET v == Addend(w)
                    sum == op'[w].ret
                    amount == op'[w].amount
                IN  /\ \A i \in 1..4 : sum[i] \in 0..(Limb - 1)
                    /\ Congruent(sum, v, amount)
                    /\ (v = MaxInt64 /\ amount = Int64(1)) => sum = MinInt64
                    /\ (v = MinInt64 /\ amount = Int64(-1)) => sum = MaxInt64
                    /\ prim = "counter" => cValue' = sum
                    /\ prim = "scoreboard" =>
                          LET m == sCounters'[ForKey(op[w].key)] IN
                          IF sum = Int64(0) THEN op[w].key \notin DOMAIN m
                          ELSE op[w].key \in DOMAIN m /\ m[op[w].key] = sum]_vars

\* A key held MinInt64 and an Add of MinInt64 has returned 0: the key has
\* no entry.
C25_Witness ==
    /\ prim = "scoreboard"
    /\ \E w \in Writers :
          /\ pc[w] = "notify" /\ op[w].amount = MinInt64 /\ op[w].ret = Int64(0)
          /\ op[w].key \notin DOMAIN sCounters[ForKey(op[w].key)]

Min(x, y) == IF x <= y THEN x ELSE y

\* C26: when every call of Try made so far has returned, k of them say,
\* Calls() is k, and Faults() and the number of calls that returned the
\* error are both min(n, k).
C26_FirstN ==
    (prim = "fault" /\ \A w \in Writers : pc[w] = "idle") =>
        /\ Calls = hist.returned
        /\ Faults = Min(obj.n, hist.returned)
        /\ hist.errs = Min(obj.n, hist.returned)

\* With First(1), two calls of Try have both returned nil: each made its
\* Inc before either read Calls().
C26_Witness ==
    /\ prim = "fault" /\ obj.n = 1
    /\ \A w \in Writers : pc[w] = "idle" /\ op[w] = [name |-> "Tried", err |-> FALSE]
    /\ Calls = 2 /\ Faults = 0 /\ hist.returned = 2

\* The same statement for the runs in which one goroutine alone calls Try.
FirstNAlone == (op["w2"] = NoCall /\ pc["w2"] = "idle") => C26_FirstN

\* C27: until the call returns nothing is reported to t.  A run of the
\* assertion that reports no error returns true in that very step,
\* whatever earlier runs reported, and nothing is reported to t; a run that
\* reports errors goes to the select, from which a tick leads to the next
\* run.  The call returns false only once the timer has fired, and t has
\* then been given the errors of the most recent run, in order, each as
\* "Assertion not satisfied within <timeout>: <error>".
C27_UntilAsserted ==
    /\ [](\A w \in Writers :
            (prim = "wait" /\ pc[w] # "off") =>
                /\ op[w].name # "Asserted" => obj.reported = <<>>
                /\ (op[w].name = "Asserted" /\ op[w].ret)
                       => obj.reported = <<>> /\ hist.lastRun = <<>>
                /\ (op[w].name = "Asserted" /\ ~op[w].ret)
                       => /\ hist.timedOut /\ hist.lastRun # <<>>
                          /\ Len(obj.reported) = Len(hist.lastRun)
                          /\ \A i \in 1..Len(hist.lastRun) :
                                 obj.reported[i] = NotSatisfied(obj.timeout, hist.lastRun[i]))
    /\ [][\A w \in Writers :
            /\ (pc[w] = "assert" /\ pc'[w] # "assert") =>
                  IF hist'.lastRun = <<>>
                  THEN pc'[w] = "idle" /\ op'[w] = [name |-> "Asserted", ret |-> TRUE]
                  ELSE pc'[w] = "select"
            /\ (pc[w] = "select" /\ pc'[w] = "assert") => obj.ticker = "fired"]_vars

\* The first run failed and a tick led to a second run that reported one
\* error; the timer fired and the call returned false: t has the error of
\* the second run alone.
C27_Witness ==
    /\ prim = "wait" /\ obj.runs = 2
    /\ \E w \in Writers : op[w] = [name |-> "Asserted", ret |-> FALSE]
    /\ hist.lastRun = <<"e2">>
    /\ obj.reported = <<NotSatisfied(obj.timeout, "e2")>>

\* C28: the trigger of a Watcher runs at most once, and not at all when
\* End() was called before the timer fired; a Watcher whose End() is never
\* called has its trigger run in the end.
C28_Watch ==
    /\ [](\A w \in Writers :
            prim = "watch" =>
                /\ obj.of[w].triggered <= 1
                /\ hist.early[w] => obj.of[w].triggered = 0)
    /\ \A w \in Writers :
          [](pc[w] = "watching") => <>(obj.of[w].triggered = 1)

\* End() was called before the timer fired, and the trigger has run all the
\* same.
C28_Witness ==
    /\ prim = "watch"
    /\ \E w \in Writers :
          /\ pc[w] = "ended" /\ hist.early[w] /\ ~hist.parked[w]
          /\ obj.of[w].triggered = 1

\* The same statement for an End() that finds the goroutine parked in its
\* select: the trigger then never runs.
WatchEndedParked ==
    /\ [](\A w \in Writers :
            prim = "watch" =>
                /\ obj.of[w].triggered <= 1
                /\ (hist.early[w] /\ hist.parked[w]) => obj.of[w].triggered = 0)
    /\ \A w \in Writers :
          [](pc[w] = "watching") => <>(obj.of[w].triggered = 1)

\* The steps a waiter can take from its select, and the notification-driven
\* one among them.
Selects(a) == WaiterStep(a) \/ SelectDone(a) \/ SelectTick(a)
Woken(a) == CounterSelectNotify(a) \/ RefSelectNotify(a) \/ ShardSelectNotify(a)

\* C29: no notification channel ever holds more than one notification; a
\* channel is filled by the notification step of a mutator call only, and
\* that step leaves exactly one notification, however many calls notified
\* before it; a waiter that goes round its loop for a notification has taken
\* the one there was and left none, and a waiter in its select with no
\* notification, no tick and an open context has no step to take.
C29_WakeProtocol ==
    /\ [](/\ cNotify \in {0, 1} /\ rNotify \in {0, 1}
          /\ \A i \in Shards : sNotify[i] \in {0, 1})
    /\ [][(\/ cNotify' > cNotify \/ rNotify' > rNotify
           \/ \E i \in Shards : sNotify'[i] > sNotify[i]) =>
              \E w \in Writers :
                 /\ pc[w] = "notify" /\ pc'[w] = "idle"
                 /\ cNotify' + rNotify' = 1 \/ sNotify'[ForKey(op[w].key)] = 1]_vars
    /\ [][\A a \in Waiters :
            (pc[a] = "select" /\ pc'[a] = "read" /\ ticker'[a] = ticker[a]) =>
                Pending(a) = 1 /\ Pending(a)' = 0]_vars
    /\ [](\A a \in Waiters :
            (pc[a] = "select" /\ ticker[a] # "fired" /\ ~ctxDone[a]) =>
                IF Pending(a) = 0 THEN ~ENABLED Selects(a) ELSE ENABLED Woken(a))

\* A waiter is in its select with a value that is not the current one, a
\* notification is pending, one mutator call has returned and another has
\* come to its notification and finds the channel full.
C29_Witness ==
    \E a \in Waiters, w \in Writers :
        /\ pc[a] = "select" /\ Pending(a) = 1
        /\ val[a] # Current(a) /\ ~Holds(cond[a], Current(a))
        /\ pc[w] = "notify" /\ Slot(w) = 1
        /\ \E v \in Writers \ {w} : pc[v] = "idle"

\* The step in which goroutine w's mutator call updates the value, and the
\* one in which it attempts its notification and returns.
Updates(w) == pc[w] # "notify" /\ pc'[w] = "notify"
Attempts(w) == pc[w] = "notify" /\ pc'[w] = "idle"
Channels == <<cNotify, rNotify, sNotify>>

\* C30: the value of a counter or a reference changes only in the update
\* step of a mutator call, and a shard's map only under the shard's lock;
\* the update step sends nothing and, on a scoreboard, releases the lock; the
\* notification is attempted in a later step of the same call, which leaves
\* the value alone and holds no lock; a notification is pending only after
\* such a step, and is taken by a waiter that goes on to read; and what a
\* waiter reads is the value at the time of that read.
C30_VisibleFirst ==
    /\ [][(cValue' # cValue \/ rValue' # rValue) => \E w \in Writers : Updates(w)]_vars
    /\ [][\A i \in Shards : sCounters'[i] # sCounters[i] => sLock[i] \in Writers]_vars
    /\ [][\A w \in Writers :
            /\ Updates(w) =>
                  /\ Channels' = Channels
                  /\ prim = "scoreboard" =>
                        /\ sLock[ForKey(op[w].key)] = w
                        /\ sLock'[ForKey(op[w].key)] = "free"
            /\ Attempts(w) =>
                  /\ UNCHANGED <<cValue, rValue, sCounters, sLock>>
                  /\ \A i \in Shards : sLock[i] # w]_vars
    /\ [][Channels' # Channels =>
            \/ \E w \in Writers : Attempts(w)
            \/ \E a \in Waiters : pc[a] = "select" /\ pc'[a] = "read"]_vars
    /\ [][\A a \in Waiters :
            (pc[a] \in {"read", "reading"} /\ pc'[a] \notin {"read", "reading"}) =>
                val'[a] = Current(a) /\ Current(a)' = Current(a)]_vars

\* A waiter has taken the notification of a call that has returned and has
\* read again: the value it holds is the current one, while the other
\* waiter, which the notification did not reach, still holds an older one.
C30_Witness ==
    \E a \in Waiters :
        /\ prim \in {"counter", "reference"}
        /\ pc[a] = "select" /\ ticker[a] = "armed" /\ Pending(a) = 0
        /\ \A w \in Writers : pc[w] \in {"idle", "off"}
        /\ val[a] = Current(a)
        /\ \E b \in Waiters \ {a} : pc[b] = "select" /\ val[b] # val[a]

\* A Clear in progress has emptied the shard of the key goroutine a waits
\* on, and a sleeps in its select.
ClearedUnder(a) ==
    IF prim = "scoreboard" /\ pc[a] = "select"
    THEN \E w \in Writers :
            /\ op[w].name = "Clear" /\ pc[w] = "clearing"
            /\ op[w].shard > ForKey(op[a].key)
    ELSE FALSE

\* C31: the call that changes a shard's map goes on to the notification of
\* that shard, Clear included; and with the tickers and the contexts out of
\* play, a sole waiter asleep when Clear empties its shard, whose condition
\* holds of the emptied entry, returns unless a later mutation undoes it.
C31_ClearNotifies ==
    /\ [][\A i \in Shards :
            sCounters'[i] # sCounters[i] =>
                \E w \in Writers : sLock[i] = w /\ pc'[w] = "notify"]_vars
    /\ \A a \in Waiters :
          (Solo(a) /\ ClearedUnder(a) /\ Sat(a)) ~> (pc[a] = "done" \/ ~Sat(a))

\* The sole waiter read a nonzero entry and sleeps in its select; Clear has
\* emptied the shard, the condition holds of the entry now, and no
\* notification is pending.
C31_Witness ==
    \E a \in Waiters :
        /\ Solo(a) /\ ClearedUnder(a) /\ Sat(a)
        /\ val[a] # 0 /\ Pending(a) = 0

\* The first half of C31 for the calls other than Clear.
MutatorsNotify ==
    [][\A i \in Shards :
         (sCounters'[i] # sCounters[i] /\ \A w \in Writers : op[w].name # "Clear") =>
             \E w \in Writers : sLock[i] = w /\ pc'[w] = "notify"]_vars

\* Goroutine a waits on a scoreboard key.
OnKey(a) == prim = "scoreboard" /\ pc[a] \notin {"idle", "off"}

\* C32: with the tickers and the contexts out of play, a goroutine waiting
\* on a scoreboard key whose condition holds of the key's entry from some
\* mutation on returns a value its condition holds of, whoever else waits
\* on or mutates the scoreboard.
C32_PerKey ==
    \A a \in Waiters : <>[](OnKey(a) /\ Sat(a)) => <>Returned(a)

\* Two goroutines wait on different keys of one shard; the one whose
\* condition does not hold has taken the shard's notification and sleeps
\* again, the one whose condition holds sleeps on, and nothing is pending.
C32_Witness ==
    \E a \in Waiters, b \in Waiters :
        /\ OnKey(a) /\ OnKey(b) /\ Quiescent
        /\ pc[a] = "select" /\ pc[b] = "select"
        /\ op[a].key # op[b].key /\ ForKey(op[a].key) = ForKey(op[b].key)
        /\ Sat(a) /\ ~Sat(b) /\ val[b] = Current(b) /\ val[a] # Current(a)
        /\ Pending(a) = 0

\* No other goroutine waits on a key of the shard goroutine a waits on.
AloneOnShard(a) ==
    IF OnKey(a)
    THEN \A b \in Waiters \ {a} : OnKey(b) => ForKey(op[b].key) # ForKey(op[a].key)
    ELSE TRUE

\* C32 for the mutators other than Clear, when the waiters wait on
\* different shards.
PerKeyAlone ==
    \A a \in Waiters :
        ([]NoClear /\ []AloneOnShard(a) /\ <>[](OnKey(a) /\ Sat(a))) => <>Returned(a)

\* C33: a call makes at most one pass of its loop, one condition check,
\* once its context is done.
C33_OneCheck == \A a \in Waiters : hist.checks[a] <= 1

\* The call has returned on its cancellation branch after two passes made
\* with the context done: one for a notification, one for a tick.
C33_Witness ==
    \E a \in Waiters :
        /\ pc[a] = "done" /\ ctxDone[a] /\ ~Holds(cond[a], ret[a])
        /\ hist.checks[a] = 2

\* Once the context is done no pass is made but for a notification or a
\* tick that the select took in its place.
ChecksAreWakeUps ==
    [][\A a \in Waiters :
         (ctxDone[a] /\ pc[a] = "select" /\ pc'[a] = "read") =>
             Pending(a)' < Pending(a) \/ ticker[a] = "fired"]_vars

\* C34: whether a TryRun goes on to its compare-and-swap depends on the
\* time it sampled and the marker alone, and whether it wins on the marker
\* being what it read, whatever actions are running; the winning swap puts
\* the sampled time in the marker before the action has run, and the action
\* and the return of the call leave the marker alone.
C34_NoRunningState ==
    [][\A w \in Writers :
         /\ (pc[w] = "now" /\ pc'[w] # "now") =>
               (pc'[w] = "cas") = (op[w].now - cValue > interval)
         /\ (pc[w] = "cas" /\ pc'[w] # "cas") =>
               /\ (pc'[w] = "swapped") = (cValue = op[w].last)
               /\ pc'[w] = "swapped" =>
                     /\ cValue' = op[w].now
                     /\ hist'.runs = hist.runs
         /\ (pc[w] \in {"swapped", "run"} /\ pc'[w] # pc[w]) =>
               cValue' = cValue]_vars

\* Two actions in progress at once: a TryRun that sampled the clock more than
\* the interval after the winning call's sample has won in its turn, while
\* the action of that call has not completed.
C34_Witness ==
    /\ prim = "deadline"
    /\ \E w \in Writers, v \in Writers :
          /\ pc[w] = "run" /\ pc[v] \in {"swapped", "run"}
          /\ op[v].last = op[w].now
          /\ op[v].now - op[w].now > interval
          /\ cValue = op[v].now

\* The step in which goroutine w's TryRun returns false.
ReturnsFalse(w) ==
    /\ pc[w] \in {"now", "cas"} /\ pc'[w] = "idle"
    /\ op'[w].name = "TryRan" /\ ~op'[w].ret

\* C35: a TryRun returns false either from its test, when the time it
\* sampled is within the interval of the marker, and every such call does,
\* without a compare-and-swap; or from a compare-and-swap that found the
\* marker changed by another call.  In both cases the marker stays as it is
\* and no action is run.  Last(), Elapsed() and Lapsed() return in one step
\* that leaves the marker, and all but their own result, as they were.
C35_FalseFrame ==
    [][\A w \in Writers :
         /\ ReturnsFalse(w) =>
               /\ cValue' = cValue /\ cNotify' = cNotify /\ hist'.runs = hist.runs
               /\ pc[w] = "now" => op[w].now - cValue <= interval
               /\ pc[w] = "cas" => cValue # op[w].last
         /\ (pc[w] = "now" /\ pc'[w] # "now" /\ op[w].now - cValue <= interval) =>
               ReturnsFalse(w)
         /\ (op'[w] # op[w] /\ op'[w].name \in {"Last", "Elapsed", "Lapsed"}) =>
               /\ UNCHANGED <<cValue, cNotify, pc, hist>>
               /\ \A v \in Writers \ {w} : op'[v] = op[v]]_vars

\* A TryRun that found the deadline lapsed has returned false from its
\* compare-and-swap: the marker holds the time another TryRun put there, and
\* a Lapsed() called since has left it there.
C35_Witness ==
    /\ prim = "deadline"
    /\ \E w \in Writers, v \in Writers :
          /\ op[w].name = "Lapsed" /\ pc[w] = "idle"
          /\ op[v].name = "TryRan" /\ ~op[v].ret
          /\ op[v].now - op[v].last > interval
          /\ cValue # op[v].last /\ cValue # Epoch

\* The step in which a TryRun that found the deadline lapsed returns false.
LapsedFalse(w) == ReturnsFalse(w) /\ pc[w] = "cas"

\* C36 as stated: when a TryRun that found the deadline lapsed returns
\* false, the marker holds the time of a TryRun that has run its action and
\* returned true.
C36_Original ==
    [][\A w \in Writers : LapsedFalse(w) => cValue \in hist.runs]_vars

\* C36, amended: when a TryRun that found the deadline lapsed returns
\* false, the marker is no longer what the call had read; and unless Move
\* was called, it holds the time of another TryRun that won its
\* compare-and-swap, whose action has run or is still to complete.
C36_Matched ==
    [][\A w \in Writers :
         LapsedFalse(w) =>
             /\ cValue # op[w].last
             /\ \/ hist.moved
                \/ cValue \in hist.runs
                \/ \E v \in Winning \ {w} : op[v].now = cValue]_vars

\* Without any Move, a TryRun that found the deadline lapsed has returned
\* false while the TryRun that beat it has not run its action yet.
C36_Witness ==
    /\ prim = "deadline" /\ ~hist.moved
    /\ \E w \in Writers, v \in Winning :
          /\ pc[w] = "idle" /\ op[w].name = "TryRan" /\ ~op[w].ret
          /\ op[w].now - op[w].last > interval
          /\ op[v].now = cValue /\ cValue \notin hist.runs

\* C37: once the parent is cancelled, the contexts that Timeout and Forever
\* made from it are done, and a call waiting on one of them returns.
C37_ChildOfParent ==
    /\ [](\A a \in Waiters : obj.cancelled => ctxDone[a])
    /\ \A a \in Waiters : (obj.cancelled /\ Active(a)) ~> (pc[a] = "done")

\* The parent is cancelled; the call sleeps in its select on a context that
\* is not done, its condition not holding.
C37_Witness ==
    \E a \in Waiters :
        /\ obj.cancelled /\ obj.ctx[a].parent # "parent"
        /\ pc[a] = "select" /\ ~ctxDone[a] /\ ~Sat(a)

\* What is left of C37: a call returns once its own context is done, by its
\* timeout or its own cancel function.
OwnContext == \A a \in Waiters : ctxDone[a] ~> (pc[a] = "done")

\* v + n in int64 arithmetic.
RECURSIVE Plus(_, _)
Plus(v, n) == IF n = 0 THEN v ELSE WrappingSum(Plus(v, n - 1), Int64(1))

\* The goroutines that have made a call.
Called == {w \in Writers : op[w].name \in {"Add", "Mutate"} /\ "ret" \in DOMAIN op[w]}

\* C38: of the Inc calls made on a counter or on one scoreboard key that
\* started at v, nobody else mutating, the one whose atomic step is the
\* k-th returns v + k: the calls return v + 1, ..., v + N, each once, in
\* the order of their atomic steps; two goroutines never hold the same
\* result, and the counter or the key holds the latest.
C38_OwnUpdate ==
    /\ [][\A w \in Writers :
            AddStep(w) =>
                /\ hist'.calls = hist.calls + 1
                /\ op'[w].ret = Plus(hist.initial, hist'.calls)]_vars
    /\ [](\A w \in Called, v \in Called : w # v => op[w].ret # op[v].ret)
    /\ [](\A w \in Called : \E k \in 1..hist.calls : op[w].ret = Plus(hist.initial, k))
    /\ []((IF prim = "counter" THEN cValue
           ELSE MapGetWide(sCounters[ForKey(IncKey)], IncKey))
              = Plus(hist.initial, hist.calls))

\* Two Inc calls are in progress at once, both past their atomic step: one
\* has returned v + 2 and the other v + 3.
C38_Witness ==
    \E w \in Writers, v \in Writers :
        /\ pc[w] = "notify" /\ pc[v] = "notify"
        /\ op[w].ret = Plus(hist.initial, 2)
        /\ op[v].ret = Plus(hist.initial, 3)

====
